---------------------------- MODULE Spec2Model ----------------------------
(***************************************************************************)
(* Model of the spatial query layer of community-event-locator             *)
(* (src/places/views_api.py): the Event endpoints nearby, in_neighborhood,  *)
(* along_route, in_polygon, list, today_nearby and ranked_by_distance, the  *)
(* SpatialQueryLog they write, the stored Events, Routes and Neighborhoods  *)
(* they read, and EventGeoSerializer (src/places/serializers.py).           *)
(*                                                                         *)
(* Numbers.  A decimal literal in a request is modelled by twice its value  *)
(* (an integer number of halves), so "100" is 200 and "100.5" is 201.       *)
(* Longitudes and latitudes are in thousandths of a degree, so the          *)
(* coordinate 3 is 1.5 thousandths of a degree.  Distances are planar, at   *)
(* 111000 metres per degree (the conversion the repository uses), that is   *)
(* 111 half-metres per coordinate unit.                                     *)
(***************************************************************************)
EXTENDS Integers, Sequences, FiniteSets, TLC

VARIABLES
    events,       \* stored Event rows
    hoods,        \* stored Neighborhood rows
    routes,       \* stored Route rows
    log,          \* SpatialQueryLog rows, oldest first
    pc,           \* "idle": the worker waits; "responded": a response is out
    req,          \* the request the worker handled last
    resp,         \* the response to req
    queried,      \* whether handling req evaluated an Event queryset
    logged,       \* how many rows handling req added to the log
    workers,      \* the workers that handle requests side by side
    rendered,     \* the run of EventGeoSerializer over a queryset, row by row
    route_paths,  \* path and country of the stored Route rows, in degrees
    fixer         \* the fix_route_coordinates command: its place in a run

vars == <<events, hoods, routes, log, pc, req, resp, queried, logged,
          workers, rendered, route_paths, fixer>>

-----------------------------------------------------------------------------
(* Bounds of the model *)

MaxLog == 2

-----------------------------------------------------------------------------
(* Request parameter strings *)

Absent == [k |-> "absent", v |-> 0]
Junk   == [k |-> "junk", v |-> 0]
Empty  == [k |-> "empty", v |-> 0]
Num(h) == [k |-> "num", v |-> h]

\* request.GET.get(name): None when the parameter is absent
\* request.GET.get(name, default): the default when it is absent
GetOr(tok, default) == IF tok.k = "absent" THEN default ELSE tok

\* float(x): TypeError on None, ValueError on text that is no number
FloatOk(tok) == tok.k = "num"
FloatVal(tok) == tok.v

\* int(x): an int is returned as is; a string must be an integer literal
\* ("100.5" and "abc" raise ValueError, None raises TypeError)
IntOk(tok) == tok.k = "num" /\ tok.v % 2 = 0
IntVal(tok) == tok.v \div 2

-----------------------------------------------------------------------------
(* Geometry: points are <<x, y>> = <<longitude, latitude>> *)

Abs(n) == IF n < 0 THEN -n ELSE n
Min2(a, b) == IF a < b THEN a ELSE b
Max2(a, b) == IF a < b THEN b ELSE a

\* a point built with latitude first (what Point(lat, lng) would give)
PointLatFirst(x, y) == <<y, x>>
\* Point(x, y, srid=4326)
Point(x, y) == <<x, y>>

Dist2(p, q) == (p[1] - q[1]) * (p[1] - q[1]) + (p[2] - q[2]) * (p[2] - q[2])

\* metres per degree of the planar conversion, in half-metres per unit
HalfMetresPerUnit == 111000 \div 1000

\* floor((h / s)^2) for h >= 0, without forming h * h
SqFloor(h, s) ==
    LET q == h \div s
        m == h % s
    IN  q * q + ((2 * q * m * s + m * m) \div (s * s))

\* D(m=r): the distance r metres, in half-metres
D(r) == 2 * r

\* whether a squared coordinate distance d2 is at most h half-metres
Sq2Lte(d2, h) == h >= 0 /\ d2 <= SqFloor(h, HalfMetresPerUnit)

\* a coordinate difference too large for h half-metres (keeps d2 small)
Near1(a, b, h) == h >= 0 /\ Abs(a - b) <= (h \div HalfMetresPerUnit) + 1

\* the lookup location__distance_lte = (point, D): distance(p, q) <= h
PointDistanceLte(p, q, h) ==
    /\ Near1(p[1], q[1], h) /\ Near1(p[2], q[2], h)
    /\ Sq2Lte(Dist2(p, q), h)

\* distance from p to the segment a-b at most h half-metres (exact: the
\* squared distance to the carrying line is cross^2 / |ab|^2)
SegDistanceLte(p, a, b, h) ==
    LET len2 == Dist2(a, b)
        dot  == (p[1] - a[1]) * (b[1] - a[1]) + (p[2] - a[2]) * (b[2] - a[2])
        crs  == (b[1] - a[1]) * (p[2] - a[2]) - (b[2] - a[2]) * (p[1] - a[1])
        s    == HalfMetresPerUnit
    IN  IF dot <= 0 THEN PointDistanceLte(p, a, h)
        ELSE IF dot >= len2 THEN PointDistanceLte(p, b, h)
        ELSE h >= 0 /\ crs * crs * s * s <= h * h * len2

\* the lookup location__distance_lte = (linestring, D)
PathDistanceLte(p, path, h) ==
    \E i \in 1..(Len(path) - 1) : SegDistanceLte(p, path[i], path[i + 1], h)

\* p lies on the segment a-b
OnSegment(p, a, b) ==
    /\ (b[1] - a[1]) * (p[2] - a[2]) = (b[2] - a[2]) * (p[1] - a[1])
    /\ Min2(a[1], b[1]) <= p[1] /\ p[1] <= Max2(a[1], b[1])
    /\ Min2(a[2], b[2]) <= p[2] /\ p[2] <= Max2(a[2], b[2])

\* the ray from p towards +x crosses the segment a-b
RayCrosses(p, a, b) ==
    /\ (a[2] > p[2]) # (b[2] > p[2])
    /\ IF b[2] > a[2]
       THEN (p[1] - a[1]) * (b[2] - a[2]) < (p[2] - a[2]) * (b[1] - a[1])
       ELSE (p[1] - a[1]) * (b[2] - a[2]) > (p[2] - a[2]) * (b[1] - a[1])

OnRing(p, ring) ==
    \E i \in 1..(Len(ring) - 1) : OnSegment(p, ring[i], ring[i + 1])

\* p in the open region a closed ring encloses (even-odd rule)
InsideRing(p, ring) ==
    /\ ~OnRing(p, ring)
    /\ Cardinality({i \in 1..(Len(ring) - 1) :
                       RayCrosses(p, ring[i], ring[i + 1])}) % 2 = 1

\* A polygon value: exterior ring and interior rings (holes).  The empty
\* polygon has the empty exterior ring.
Poly(shell, holes) == [shell |-> shell, holes |-> holes]

\* the lookup location__within = polygon (ST_Within): p is in the interior
\* of the polygon; a point of the boundary is not within
Within(p, poly) ==
    /\ InsideRing(p, poly.shell)
    /\ \A j \in 1..Len(poly.holes) :
          ~InsideRing(p, poly.holes[j]) /\ ~OnRing(p, poly.holes[j])

\* the boundary-inclusive relation (ST_Covers), for comparison
Covers(p, poly) ==
    /\ InsideRing(p, poly.shell) \/ OnRing(p, poly.shell)
    /\ \A j \in 1..Len(poly.holes) : ~InsideRing(p, poly.holes[j])

-----------------------------------------------------------------------------
(* Stored rows.  Strings are sequences of characters. *)

Str_art   == <<"a", "r", "t">>
Str_party == <<"p", "a", "r", "t", "y">>
Str_Fair  == <<"F", "a", "i", "r">>
Str_walk  == <<"w", "a", "l", "k">>
Str_none  == << >>
Str_active == <<"a", "c", "t", "i", "v", "e">>
Str_draft == <<"d", "r", "a", "f", "t">>
Str_cancelled == <<"c", "a", "n", "c", "e", "l", "l", "e", "d">>
Str_postponed == <<"p", "o", "s", "t", "p", "o", "n", "e", "d">>
Str_completed == <<"c", "o", "m", "p", "l", "e", "t", "e", "d">>

\* Event (models.py): the columns the endpoints read.  category is the
\* category_id column, 0 for NULL; when is in hours.
Ev(id, loc, when, cat, tags, status, title, descr) ==
    [id |-> id, location |-> loc, when |-> when, category_id |-> cat,
     tags |-> tags, status |-> status, title |-> title, description |-> descr]

E1 == Ev(1, <<0, 0>>, 30, 1, Str_art, Str_active, Str_Fair, Str_none)
E2 == Ev(2, <<4, 2>>, 50, 0, Str_party, Str_active, Str_walk, Str_art)
E3 == Ev(3, <<2, 4>>, 10, 2, Str_none, Str_draft, Str_walk, Str_none)
E4 == Ev(4, <<4, 4>>, 50, 1, Str_art, Str_cancelled, Str_art, Str_none)

EventPool == {E1, E2, E3, E4}
Datasets == {EventPool, {E2, E3}}

Square == <<<<0, 0>>, <<8, 0>>, <<8, 8>>, <<0, 8>>, <<0, 0>>>>
Hole == <<<<3, 1>>, <<5, 1>>, <<5, 3>>, <<3, 3>>, <<3, 1>>>>
Triangle == <<<<0, 0>>, <<8, 0>>, <<0, 8>>, <<0, 0>>>>

\* Neighborhood (models.py): area is a PolygonField
Hood(id, area) == [id |-> id, area |-> area]
StoredHoods == {Hood(1, Poly(Square, <<Hole>>)), Hood(2, Poly(Triangle, << >>))}

\* Route (models.py): path is a LineStringField
Route(id, path) == [id |-> id, path |-> path]
StoredRoutes == {Route(1, <<<<0, 6>>, <<8, 6>>, <<8, 10>>>>),
                 Route(2, <<<<0, 0>>, <<4, 4>>>>)}

-----------------------------------------------------------------------------
(* Text *)

\* str.lower() / the database's case folding, on the letters in use
LowerChar(c) ==
    CASE c = "A" -> "a"
      [] c = "F" -> "f"
      [] c = "R" -> "r"
      [] c = "T" -> "t"
      [] OTHER -> c
LowerStr(str) == [i \in 1..Len(str) |-> LowerChar(str[i])]

Contains(str, sub) ==
    \E i \in 0..(Len(str) - Len(sub)) : SubSeq(str, i + 1, i + Len(sub)) = sub

\* the lookup field__icontains = sub
IContains(str, sub) == Contains(LowerStr(str), LowerStr(sub))

\* str.strip()
RECURSIVE LStrip(_)
LStrip(str) ==
    IF str # << >> /\ Head(str) = " " THEN LStrip(Tail(str)) ELSE str
RECURSIVE RStrip(_)
RStrip(str) ==
    IF str # << >> /\ str[Len(str)] = " "
    THEN RStrip(SubSeq(str, 1, Len(str) - 1)) ELSE str
Strip(str) == RStrip(LStrip(str))

\* str.split(","): the pieces between commas, empty pieces included
RECURSIVE SplitFrom(_, _, _)
SplitFrom(str, i, piece) ==
    IF i > Len(str) THEN <<piece>>
    ELSE IF str[i] = "," THEN <<piece>> \o SplitFrom(str, i + 1, << >>)
    ELSE SplitFrom(str, i + 1, Append(piece, str[i]))
Split(str) == SplitFrom(str, 1, << >>)

\* [t.strip() for t in tags.split(",") if t.strip()]
RECURSIVE StripAll(_)
StripAll(pieces) ==
    IF pieces = << >> THEN << >>
    ELSE (IF Strip(Head(pieces)) = << >> THEN << >>
          ELSE <<Strip(Head(pieces))>>) \o StripAll(Tail(pieces))
TagList(str) == StripAll(Split(str))

\* request.GET.get(name, "") of a text parameter; .k is "str" when given
Str(chars) == [k |-> "str", v |-> chars]
TextOf(tok) == IF tok.k = "str" THEN tok.v ELSE << >>

\* lexicographic order of two texts by character, for ORDER BY title
CharRank(c) ==
    CASE c = "a" -> 1 [] c = "A" -> 1 [] c = "f" -> 2 [] c = "F" -> 2
      [] c = "i" -> 3 [] c = "k" -> 4 [] c = "l" -> 5 [] c = "p" -> 6
      [] c = "r" -> 7 [] c = "t" -> 8 [] c = "w" -> 9 [] c = "y" -> 10
      [] OTHER -> 0
RECURSIVE TextLess(_, _)
TextLess(a, b) ==
    IF b = << >> THEN FALSE
    ELSE IF a = << >> THEN TRUE
    ELSE IF CharRank(Head(a)) # CharRank(Head(b))
         THEN CharRank(Head(a)) < CharRank(Head(b))
    ELSE TextLess(Tail(a), Tail(b))

-----------------------------------------------------------------------------
(* Querysets, serialization, responses and the query log *)

\* get_queryset(): Event.objects.all(), in the model's default order
get_queryset(evs) == evs

\* Event.Meta.ordering = ['-when'], the order of a queryset without order_by
META_ORDERING == "-when"

\* order_by(ordering): the fields the requests of the model name; any other
\* name raises FieldError
OrderingOk(ordering) == ordering \in {"-when", "when", "title", "id", "-id"}
OrderLess(ordering, e, f) ==
    CASE ordering = "-when" -> e.when > f.when
      [] ordering = "when" -> e.when < f.when
      [] ordering = "title" -> TextLess(e.title, f.title)
      [] ordering = "id" -> e.id < f.id
      [] ordering = "-id" -> e.id > f.id
      [] ordering = "distance_deg" -> e.distance_deg < f.distance_deg
      [] OTHER -> FALSE

\* The rows of a set S as a sequence in the given ordering; tieUp decides
\* between rows the ordering does not tell apart (the database's choice).
RECURSIVE SortRows(_, _, _)
SortRows(S, ordering, tieUp) ==
    IF S = {} THEN << >>
    ELSE LET firsts == {e \in S : \A f \in S : ~OrderLess(ordering, f, e)}
             pick == CHOOSE e \in firsts : \A f \in firsts :
                        IF tieUp THEN e.id <= f.id ELSE e.id >= f.id
         IN  <<pick>> \o SortRows(S \ {pick}, ordering, tieUp)

\* context={'reference_point': pt}, or no reference point in the context
NoRef == << >>

\* The largest n in lo..hi with n * n <= x
RECURSIVE SqrtBetween(_, _, _)
SqrtBetween(x, lo, hi) ==
    IF lo >= hi THEN lo
    ELSE LET mid == (lo + hi + 1) \div 2
         IN  IF mid * mid <= x THEN SqrtBetween(x, mid, hi)
             ELSE SqrtBetween(x, lo, mid - 1)

\* get_distance: obj.location.distance(reference_point) * 111000 when the
\* context holds a reference point, None otherwise.  The number is kept
\* in whole half-metres, rounded down.
get_distance(e, ref) ==
    IF ref = NoRef THEN [k |-> "null", v |-> 0]
    ELSE LET d2 == Dist2(e.location, ref)
                   * HalfMetresPerUnit * HalfMetresPerUnit
         IN  Num(SqrtBetween(d2, 0, Min2(d2, 40000)))

\* One Feature of EventGeoSerializer, as far as the endpoints are told
\* apart by it: the id, the Point geometry (coordinates [x, y] of the
\* stored location) and the distance property
Feature(e, ref) ==
    [id |-> e.id, geometry |-> <<e.location[1], e.location[2]>>,
     distance |-> get_distance(e, ref)]

\* EventGeoSerializer(rows, many=True, context=...).data
Serialize(rows, ref) == [i \in 1..Len(rows) |-> Feature(rows[i], ref)]

\* Response(data), Response({"error": ...}, status=400), the 404 of
\* get_object_or_404 ({"detail": ...}) and the 500 of an unhandled exception
Response(features) ==
    [status |-> 200, key |-> "none", fc |-> TRUE, features |-> features,
     paged |-> FALSE]
ErrorResponse(status) ==
    [status |-> status, key |-> "error", fc |-> FALSE, features |-> << >>,
     paged |-> FALSE]
Http404 ==
    [status |-> 404, key |-> "detail", fc |-> FALSE, features |-> << >>,
     paged |-> FALSE]
ServerError ==
    [status |-> 500, key |-> "none", fc |-> FALSE, features |-> << >>,
     paged |-> FALSE]

\* Response(ser.data) outside any try block: ser.data is read when the
\* response is built, and an exception it raises (serOk false) ends the
\* request in a 500
ResponseOf(ser, serOk) == IF serOk THEN Response(ser) ELSE ServerError

\* What handling one request comes to: the response, whether an Event
\* queryset was evaluated, and the calls of _log_spatial_query it made
Outcome(response, ran, calls) ==
    [resp |-> response, queried |-> ran, logcalls |-> calls]
Rejected(response) == Outcome(response, FALSE, << >>)

\* a log row that would record no result count
LogEntryNoCount(query_type, parameters, result_count) ==
    [query_type |-> query_type, parameters |-> parameters,
     result_count |-> 0]
\* the fields of SpatialQueryLog.objects.create(...) the model keeps
LogEntry(query_type, parameters, result_count) ==
    [query_type |-> query_type, parameters |-> parameters,
     result_count |-> result_count]

\* a log write without the try/except: the failure reaches the caller
log_spatial_query_uncaught(rows, entry, dbOk) ==
    [rows |-> IF dbOk THEN Append(rows, entry) ELSE rows, raised |-> ~dbOk]
\* a log write that replaces the newest row instead of adding one
log_spatial_query_overwrite(rows, entry, dbOk) ==
    [rows |-> IF ~dbOk THEN rows
              ELSE IF rows = << >> THEN <<entry>>
              ELSE [rows EXCEPT ![Len(rows)] = entry],
     raised |-> FALSE]
\* _log_spatial_query: SpatialQueryLog.objects.create(...) inside
\* try/except Exception; when the write fails (dbOk false) no row is
\* stored and nothing is raised to the caller
log_spatial_query(rows, entry, dbOk) ==
    [rows |-> IF dbOk THEN Append(rows, entry) ELSE rows, raised |-> FALSE]

\* The calls of _log_spatial_query of one request, in order; a call that
\* raises ends the request there
RECURSIVE LogAll(_, _, _)
LogAll(rows, calls, dbOk) ==
    IF calls = << >> THEN [rows |-> rows, raised |-> FALSE]
    ELSE LET done == log_spatial_query(rows, Head(calls), dbOk)
         IN  IF done.raised THEN done
             ELSE LogAll(done.rows, Tail(calls), dbOk)

Ids(features) == {features[i].id : i \in 1..Len(features)}

-----------------------------------------------------------------------------
(* EventViewSet.nearby *)

NEARBY_DEFAULT_RADIUS == 1000

\* a parse that would look at lat alone
NearbyParamsOkLatOnly(GET) == FloatOk(GET.lat)
\* the try block: float(lat), float(lng), int(radius or 1000)
NearbyParamsOk(GET) ==
    /\ FloatOk(GET.lat)
    /\ FloatOk(GET.lng)
    /\ IntOk(GetOr(GET.radius, Num(2 * NEARBY_DEFAULT_RADIUS)))

nearby(GET, evs, tieUp, serOk) ==
    IF ~NearbyParamsOk(GET)
    THEN Rejected(ErrorResponse(400))
    ELSE LET lat == FloatVal(GET.lat)
             lng == FloatVal(GET.lng)
             radius == IntVal(GetOr(GET.radius, Num(2 * NEARBY_DEFAULT_RADIUS)))
             pt == Point(lng, lat)
             qs == {e \in get_queryset(evs) :
                       PointDistanceLte(e.location, pt, D(radius))}
             result_count == Cardinality(qs)
             ser == Serialize(SortRows(qs, META_ORDERING, tieUp), NoRef)
         IN  Outcome(ResponseOf(ser, serOk), TRUE,
                     <<LogEntry("nearby",
                                [lat |-> lat, lng |-> lng, radius |-> radius],
                                result_count)>>)

-----------------------------------------------------------------------------
(* EventViewSet.in_neighborhood *)

\* get_object_or_404(Model, pk=tok): "found" with the row, "missing"
\* (Http404), or "error": the pk lookup raises ValueError on text that is
\* no integer literal, which get_object_or_404 does not catch
PkLookup(rows, tok) ==
    IF ~IntOk(tok) THEN [st |-> "error", id |-> 0]
    ELSE IF \E r \in rows : r.id = IntVal(tok)
         THEN [st |-> "found", id |-> IntVal(tok)]
         ELSE [st |-> "missing", id |-> 0]

RowById(rows, id) == CHOOSE r \in rows : r.id = id

\* `if not hood_id`: None or the empty string
Falsy(tok) == tok.k \in {"absent", "empty"}

in_neighborhood(GET, evs, hds, tieUp, serOk) ==
    IF Falsy(GET.neighborhood_id) THEN Rejected(ErrorResponse(400))
    ELSE LET got == PkLookup(hds, GET.neighborhood_id)
         IN  IF got.st = "error" THEN Rejected(ServerError)
             ELSE IF got.st = "missing" THEN Rejected(Http404)
             ELSE LET hood_geom == RowById(hds, got.id).area
                      qs == {e \in get_queryset(evs) :
                                Within(e.location, hood_geom)}
                      result_count == Cardinality(qs)
                      ser == Serialize(SortRows(qs, META_ORDERING, tieUp), NoRef)
                  IN  Outcome(ResponseOf(ser, serOk), TRUE,
                              <<LogEntry("neighborhood",
                                   [neighborhood_id |->
                                       IntVal(GET.neighborhood_id)],
                                   result_count)>>)

-----------------------------------------------------------------------------
(* EventViewSet.along_route *)

ROUTE_DEFAULT_BUFFER == 200

\* int(request.GET.get("buffer", 200)), 200 again on ValueError
BufferParam(tok) ==
    IF IntOk(GetOr(tok, Num(2 * ROUTE_DEFAULT_BUFFER)))
    THEN IntVal(GetOr(tok, Num(2 * ROUTE_DEFAULT_BUFFER)))
    ELSE ROUTE_DEFAULT_BUFFER

along_route(GET, evs, rts, tieUp, serOk) ==
    LET buffer_m == BufferParam(GET.buffer)
    IN  IF Falsy(GET.route_id) THEN Rejected(ErrorResponse(400))
        ELSE LET got == PkLookup(rts, GET.route_id)
             IN  IF got.st = "error" THEN Rejected(ServerError)
                 ELSE IF got.st = "missing" THEN Rejected(Http404)
                 ELSE LET route_geom == RowById(rts, got.id).path
                          qs == {e \in get_queryset(evs) :
                                    PathDistanceLte(e.location, route_geom,
                                                    D(buffer_m))}
                          result_count == Cardinality(qs)
                          ser == Serialize(SortRows(qs, META_ORDERING, tieUp), NoRef)
                      IN  Outcome(ResponseOf(ser, serOk), TRUE,
                                  <<LogEntry("route",
                                       [route_id |-> IntVal(GET.route_id),
                                        buffer |-> buffer_m],
                                       result_count)>>)

-----------------------------------------------------------------------------
(* EventViewSet.in_polygon *)

\* A JSON value given as ring coordinates: isList is false for a value
\* that is no list of [x, y] number pairs; pts are its points otherwise.
Coords(pts) == [isList |-> TRUE, pts |-> pts]
NotCoords == [isList |-> FALSE, pts |-> << >>]

\* Polygon(coords, srid=4326): the exterior LinearRing from coords.  An
\* empty list gives the empty polygon; 1 to 3 points raise ValueError, an
\* unclosed ring raises GEOSException, a non-list raises TypeError.  The
\* ring's validity (self-intersection, zero area) is not checked.
PolygonRaises(coords) ==
    \/ ~coords.isList
    \/ Len(coords.pts) \in 1..3
    \/ Len(coords.pts) >= 4 /\ coords.pts[1] # coords.pts[Len(coords.pts)]
Polygon(coords) == Poly(coords.pts, << >>)

\* The POST body, request.data.  parsed is false for a body that is no
\* JSON object; type is its "type"; gtype is geometry.type of a Feature
\* ("null" for geometry: null, "absent" for no geometry); rings is the
\* "coordinates" array of the polygon, hasCoords whether the key is there.
Body(type, gtype, hasCoords, rings) ==
    [parsed |-> TRUE, type |-> type, gtype |-> gtype,
     hasCoords |-> hasCoords, rings |-> rings]
NoBody == [parsed |-> FALSE, type |-> "", gtype |-> "absent",
           hasCoords |-> FALSE, rings |-> << >>]

\* The try block of the POST branch: coords, or raised / rejected
PostCoords(data) ==
    IF ~data.parsed THEN [ok |-> FALSE, coords |-> NotCoords]
    ELSE IF data.type = "Feature" /\ data.gtype = "null"
         THEN [ok |-> FALSE, coords |-> NotCoords]
    ELSE IF \/ data.type = "Feature" /\ data.gtype = "Polygon"
            \/ data.type = "Polygon"
         THEN IF data.hasCoords /\ Len(data.rings) >= 1
              THEN [ok |-> TRUE, coords |-> data.rings[1]]
              ELSE [ok |-> FALSE, coords |-> NotCoords]
    ELSE [ok |-> FALSE, coords |-> NotCoords]

\* The GET branch: ?polygon= absent or empty, unparseable JSON (junk), or a
\* JSON value
GetCoords(tok) ==
    IF tok.k \in {"absent", "empty", "junk"}
    THEN [ok |-> FALSE, coords |-> NotCoords]
    ELSE [ok |-> TRUE, coords |-> tok.v]

in_polygon(method, GET, data, evs, tieUp, serOk) ==
    LET got == IF method = "POST" THEN PostCoords(data)
               ELSE GetCoords(GET.polygon)
    IN  IF ~got.ok \/ PolygonRaises(got.coords)
        THEN Rejected(ErrorResponse(400))
        ELSE LET coords == got.coords
                 polygon == Polygon(coords)
                 qs == {e \in get_queryset(evs) :
                           Within(e.location, polygon)}
                 result_count == Cardinality(qs)
                 ser == Serialize(SortRows(qs, META_ORDERING, tieUp), NoRef)
             IN  Outcome(ResponseOf(ser, serOk), TRUE,
                         <<LogEntry("polygon",
                              [polygon_coords_count |-> Len(coords.pts)],
                              result_count)>>)

-----------------------------------------------------------------------------
(* EventViewSet.list *)

PAGE_SIZE == 10000
HOURS_PER_DAY == 24

\* ?bbox=minLng,minLat,maxLng,maxLat: the text split on commas, each part
\* a number token or junk
Csv(parts) == [k |-> "csv", v |-> parts]

\* the try block: exactly four parts, each accepted by float()
BboxOk(tok) ==
    /\ tok.k = "csv"
    /\ Len(tok.v) = 4
    /\ \A i \in 1..4 : FloatOk(tok.v[i])

\* Polygon.from_bbox((x0, y0, x1, y1))
from_bbox(x0, y0, x1, y1) ==
    Poly(<<<<x0, y0>>, <<x0, y1>>, <<x1, y1>>, <<x1, y0>>, <<x0, y0>>>>, << >>)

BboxEnvelope(tok) ==
    from_bbox(FloatVal(tok.v[1]), FloatVal(tok.v[2]),
              FloatVal(tok.v[3]), FloatVal(tok.v[4]))

\* a bbox block that would drop every row when the text does not parse
BboxFilterNoneOnError(tok, evs) ==
    IF BboxOk(tok) THEN {e \in evs : Within(e.location, BboxEnvelope(tok))}
    ELSE IF tok.k = "csv" THEN {} ELSE evs
\* the bbox block: the filter is applied only when the text parses
BboxFilter(tok, evs) ==
    IF BboxOk(tok) THEN {e \in evs : Within(e.location, BboxEnvelope(tok))}
    ELSE evs

\* the filter chain of list, bbox first
ListFilter(GET, now, evs) ==
    LET tag_list == TagList(Strip(TextOf(GET.tags)))
        status == Strip(TextOf(GET.status))
        q == Strip(TextOf(GET.q))
        today_start == now - (now % HOURS_PER_DAY)
        today_end == today_start + HOURS_PER_DAY
    IN  {e \in BboxFilter(GET.bbox, get_queryset(evs)) :
            /\ (~Falsy(GET.category) /\ IntOk(GET.category))
                  => e.category_id = IntVal(GET.category)
            /\ \A i \in 1..Len(tag_list) : IContains(e.tags, tag_list[i])
            /\ status # << >> => e.status = status
            /\ q # << >> => (IContains(e.title, q) \/ IContains(e.description, q))
            /\ GET.upcoming = "true" => e.when > now
            /\ GET.today = "true" => (e.when >= today_start /\ e.when < today_end)}

\* LargeResultsSetPagination.get_page_size
PageSize(tok) ==
    IF IntOk(tok) /\ IntVal(tok) > 0
    THEN Min2(IntVal(tok), PAGE_SIZE) ELSE PAGE_SIZE

NumPages(count, size) ==
    IF count = 0 THEN 1 ELSE (count + size - 1) \div size

\* paginator.page(page_number): the number must be an integer in range
PageOk(tok, count, size) ==
    \/ tok.k = "absent"
    \/ IntOk(tok) /\ IntVal(tok) >= 1 /\ IntVal(tok) <= NumPages(count, size)

PageRows(rows, tok, size) ==
    LET n == IF tok.k = "absent" THEN 1 ELSE IntVal(tok)
    IN  SubSeq(rows, (n - 1) * size + 1, Min2(n * size, Len(rows)))

PagedResponse(features) ==
    [status |-> 200, key |-> "none", fc |-> TRUE, features |-> features,
     paged |-> TRUE]

list(GET, now, evs, tieUp, serOk) ==
    LET bbox_used == BboxOk(GET.bbox)
        qs == ListFilter(GET, now, evs)
        ordering == IF GET.ordering = "" THEN "-when" ELSE GET.ordering
        size == PageSize(GET.page_size)
    IN  IF ~OrderingOk(ordering) THEN Rejected(ServerError)
        ELSE IF ~PageOk(GET.page, Cardinality(qs), size)
        THEN Outcome(Http404, TRUE, << >>)
        ELSE LET rows == SortRows(qs, ordering, tieUp)
                 page == PageRows(rows, GET.page, size)
                 result_count == Cardinality(qs)
                 calls == IF bbox_used
                          THEN <<LogEntry("bbox",
                                   [min_lng |-> FloatVal(GET.bbox.v[1]),
                                    min_lat |-> FloatVal(GET.bbox.v[2]),
                                    max_lng |-> FloatVal(GET.bbox.v[3]),
                                    max_lat |-> FloatVal(GET.bbox.v[4])],
                                   result_count)>>
                          ELSE << >>
                 data == IF serOk THEN Serialize(page, NoRef) ELSE << >>
             IN  Outcome(PagedResponse(data), TRUE, calls)

-----------------------------------------------------------------------------
(* EventViewSet.today_nearby and EventViewSet.ranked_by_distance *)

TODAY_DEFAULT_RADIUS == 5000
RANKED_DEFAULT_LIMIT == 50

today_nearby(GET, now, evs, tieUp, serOk) ==
    IF ~(/\ FloatOk(GET.lat) /\ FloatOk(GET.lng)
         /\ IntOk(GetOr(GET.radius, Num(2 * TODAY_DEFAULT_RADIUS))))
    THEN Rejected(ErrorResponse(400))
    ELSE LET radius == IntVal(GetOr(GET.radius, Num(2 * TODAY_DEFAULT_RADIUS)))
             pt == Point(FloatVal(GET.lng), FloatVal(GET.lat))
             today_start == now - (now % HOURS_PER_DAY)
             today_end == today_start + HOURS_PER_DAY
             qs == {e \in get_queryset(evs) :
                       /\ PointDistanceLte(e.location, pt, D(radius))
                       /\ e.when >= today_start /\ e.when < today_end}
             ser == Serialize(SortRows(qs, META_ORDERING, tieUp), pt)
         IN  Outcome(ResponseOf(ser, serOk), TRUE, << >>)

\* an annotation that would rank the farthest row first
AnnotateNegated(evs, pt) ==
    {[id |-> e.id, location |-> e.location, when |-> e.when,
      distance_deg |-> 0 - Dist2(e.location, pt)] : e \in evs}
\* qs.annotate(distance_deg=Distance('location', pt)): each row with its
\* distance to pt (squared here, which orders the rows the same way)
Annotate(evs, pt) ==
    {[id |-> e.id, location |-> e.location, when |-> e.when,
      distance_deg |-> Dist2(e.location, pt)] : e \in evs}

\* ranked_by_distance: a negative limit makes the slice [:limit] raise,
\* which nothing catches
ranked_by_distance(GET, evs, tieUp, serOk) ==
    IF ~(/\ FloatOk(GET.lat) /\ FloatOk(GET.lng)
         /\ IntOk(GetOr(GET.limit, Num(2 * RANKED_DEFAULT_LIMIT))))
    THEN Rejected(ErrorResponse(400))
    ELSE LET lat == FloatVal(GET.lat)
             lng == FloatVal(GET.lng)
             limit == IntVal(GetOr(GET.limit, Num(2 * RANKED_DEFAULT_LIMIT)))
             pt == Point(lng, lat)
             ranked == SortRows(Annotate(get_queryset(evs), pt),
                                "distance_deg", tieUp)
         IN  IF limit < 0 THEN Rejected(ServerError)
             ELSE LET qs == SubSeq(ranked, 1, Min2(limit, Len(ranked)))
                      result_count == Len(qs)
                      ser == Serialize(qs, pt)
                  IN  Outcome(ResponseOf(ser, serOk), TRUE,
                              <<LogEntry("distance_ranked",
                                   [lat |-> lat, lng |-> lng, limit |-> limit],
                                   result_count)>>)

-----------------------------------------------------------------------------
(* EventViewSet.stats *)

\* Event.STATUS_CHOICES: the codes
STATUS_CHOICES ==
    {Str_draft, Str_active, Str_cancelled, Str_postponed, Str_completed}

\* a summary that would count an Event taking place now as upcoming and
\* as past
stats_inclusive(now, evs) ==
    LET qs == get_queryset(evs)
        total == Cardinality(qs)
        with_geo == Cardinality({e \in qs : e.location # << >>})
    IN  Outcome([status |-> 200, key |-> "stats", fc |-> FALSE,
                 features |-> << >>, paged |-> FALSE,
                 data |-> [total_events |-> total,
                           geocoded |-> with_geo,
                           missing_geometry |-> total - with_geo,
                           upcoming |-> Cardinality({e \in qs : e.when >= now}),
                           past |-> Cardinality({e \in qs : e.when <= now}),
                           status_breakdown |->
                              [c \in STATUS_CHOICES |->
                                  Cardinality({e \in qs : e.status = c})]]],
                TRUE, << >>)
\* stats: the counts of the whole queryset; category_breakdown is left out
stats(now, evs) ==
    LET qs == get_queryset(evs)
        total == Cardinality(qs)
        with_geo == Cardinality({e \in qs : e.location # << >>})
    IN  Outcome([status |-> 200, key |-> "stats", fc |-> FALSE,
                 features |-> << >>, paged |-> FALSE,
                 data |-> [total_events |-> total,
                           geocoded |-> with_geo,
                           missing_geometry |-> total - with_geo,
                           upcoming |-> Cardinality({e \in qs : e.when > now}),
                           past |-> Cardinality({e \in qs : e.when < now}),
                           status_breakdown |->
                              [c \in STATUS_CHOICES |->
                                  Cardinality({e \in qs : e.status = c})]]],
                TRUE, << >>)

-----------------------------------------------------------------------------
(* Requests *)

NoRequest == [ep |-> "none"]
NoResponse == [status |-> 0, key |-> "none", fc |-> FALSE,
               features |-> << >>, paged |-> FALSE]

\* latitude 90.001 and longitude 180.001 degrees: just out of range
LatTooBig == Num(180002)
LngTooBig == Num(360002)

NearbyGET(lat, lng, radius) == [lat |-> lat, lng |-> lng, radius |-> radius]

NearbyRequests ==
    {NearbyGET(lat, lng, radius) :
        lat \in {Num(2), Num(4)}, lng \in {Num(2), Num(4)},
        radius \in {Absent, Num(0), Num(240)}}
    \cup {NearbyGET(lat, Num(4), Num(240)) :
             lat \in {Absent, Junk, Empty, LatTooBig, Num(-180002)}}
    \cup {NearbyGET(Num(2), lng, Num(240)) :
             lng \in {Absent, Junk, LngTooBig}}
    \cup {NearbyGET(Num(2), Num(4), radius) :
             radius \in {Junk, Empty, Num(201), Num(-2), Num(120000)}}

HoodGET(id) == [neighborhood_id |-> id]
HoodRequests == {HoodGET(id) : id \in {Absent, Empty, Junk, Num(3), Num(2), Num(4), Num(18)}}

RouteGET(id, buffer) == [route_id |-> id, buffer |-> buffer]
RouteRequests ==
    {RouteGET(id, buffer) :
        id \in {Num(2), Num(4)},
        buffer \in {Absent, Junk, Num(20), Num(400), Num(201), Num(500), Num(-2)}}
    \cup {RouteGET(id, buffer) :
            id \in {Absent, Empty, Junk, Num(3), Num(18)},
            buffer \in {Absent, Num(20)}}

Unclosed == <<<<0, 0>>, <<8, 0>>, <<8, 8>>, <<0, 8>>>>
TooShort == <<<<0, 0>>, <<8, 0>>, <<0, 0>>>>
Collapsed == <<<<4, 4>>, <<4, 4>>, <<4, 4>>, <<4, 4>>>>

RingValues == {Coords(Square), Coords(Triangle), Coords(Hole),
               Coords(Unclosed), Coords(TooShort), Coords(Collapsed),
               Coords(<< >>), NotCoords}

PolygonGET(tok) == [polygon |-> tok]
Json(value) == [k |-> "json", v |-> value]
PolygonGetRequests ==
    {PolygonGET(tok) : tok \in {Absent, Empty, Junk} \cup {Json(c) : c \in RingValues}}

PolygonBodies ==
    {NoBody}
    \cup {Body(type, "absent", TRUE, <<c>>) :
             type \in {"Polygon", "Point"}, c \in RingValues}
    \cup {Body("Polygon", "absent", TRUE, <<Coords(Square), Coords(Hole)>>),
          Body("Polygon", "absent", TRUE, << >>),
          Body("Polygon", "absent", FALSE, << >>),
          Body("Feature", "Polygon", TRUE, <<Coords(Square), Coords(Hole)>>),
          Body("Feature", "Polygon", TRUE, <<Coords(Triangle)>>),
          Body("Feature", "Polygon", TRUE, <<Coords(Unclosed)>>),
          Body("Feature", "Polygon", FALSE, << >>),
          Body("Feature", "Point", TRUE, <<Coords(Square)>>),
          Body("Feature", "null", FALSE, << >>),
          Body("Feature", "absent", FALSE, << >>)}

ListGET(bbox, category, tags, status, q, upcoming, today, ordering, page, page_size) ==
    [bbox |-> bbox, category |-> category, tags |-> tags, status |-> status,
     q |-> q, upcoming |-> upcoming, today |-> today, ordering |-> ordering,
     page |-> page, page_size |-> page_size]

GoodBbox == Csv(<<Num(-1), Num(-1), Num(5), Num(3)>>)
Arity3Bbox == Csv(<<Num(0), Num(0), Num(5)>>)
Arity5Bbox == Csv(<<Num(0), Num(0), Num(5), Num(5), Num(6)>>)
JunkBbox == Csv(<<Num(0), Junk, Num(5), Num(5)>>)
BboxValues ==
    {Absent, Empty, GoodBbox, Csv(<<Num(0), Num(0), Num(5), Num(5)>>),
     Arity3Bbox, Arity5Bbox, JunkBbox}

ListRequests ==
    {ListGET(bbox, category, Absent, Absent, Absent, "", "", "", Absent, Absent) :
        bbox \in BboxValues, category \in {Absent, Num(2), Junk}}
    \cup {ListGET(bbox, Absent, Absent, Absent, q, "", "", ordering, Absent, Absent) :
        bbox \in {Arity3Bbox, GoodBbox},
        q \in {Absent, Str(<<"A", "R", "T">>)},
        ordering \in {"", "title", "bogus"}}
    \cup {ListGET(bbox, Absent, tags, status, Absent, upcoming, today, "", Absent, Absent) :
        bbox \in {Absent, Arity3Bbox, GoodBbox},
        tags \in {Absent, Str(<<" ", "a", "r", "t", ",", " ">>)},
        status \in {Absent, Str(Str_active)},
        upcoming \in {"", "true"}, today \in {"", "true"}}
    \cup {ListGET(bbox, Absent, Absent, Absent, Absent, "", "", "id", page, page_size) :
        bbox \in {JunkBbox, GoodBbox},
        page \in {Absent, Num(4), Junk}, page_size \in {Absent, Num(2), Num(4)}}

Nows == {20, 30}

-----------------------------------------------------------------------------
(* EventGeoSerializer (src/places/serializers.py) in full: the properties  *)
(* of a Feature and what becomes of an exception raised on the way.        *)

\* A JSON value: k is "null", "int", "num", "float", "bool", "str", "time", "list",
\* "obj" (a nested object, v the id of the related row) or "point"
Js(k, v) == [k |-> k, v |-> v]
JsNull == Js("null", 0)

\* the SerializerMethodField properties that have a get_<name> method
MethodFields ==
    {"category", "organizer", "country", "neighborhood_name", "tags_list",
     "is_upcoming", "is_past", "distance", "attendee_count",
     "average_rating", "media", "reviews", "attendees", "created_by"}
\* the model columns of Meta.fields that are kept here
ColumnFields == {"title", "description", "when", "tags"}
\* the fields handed to get_properties: Meta.fields but the id and the
\* geometry; parent_event is a SerializerMethodField without a method
PropertyFields == ColumnFields \cup MethodFields \cup {"parent_event"}

\* organizer_id and country_id of the stored Events by id, 0 for NULL
\* (category_id is in the row); neighborhood_id and created_by_id are
\* NULL.  The rows that point to an Event, by Event id: the ratings of
\* its EventReview rows in the order of reviews.all(), the number of its
\* EventAttendee rows and the number of its EventMedia rows.
OrganizerIds == <<1, 0, 1, 0>>
CountryIds == <<1, 0, 0, 2>>
ReviewRatings ==
    <<<<5, 4, 4>>, << >>, <<4, 5>>, <<3, 3, 3, 3, 3, 3, 3, 3, 3, 3, 3, 3>>>>
AttendeeRows == <<12, 0, 1, 2>>
MediaRows == <<2, 0, 0, 11>>
Instance(e) ==
    [row |-> e, organizer_id |-> OrganizerIds[e.id],
     country_id |-> CountryIds[e.id], ratings |-> ReviewRatings[e.id],
     attendees |-> AttendeeRows[e.id], media |-> MediaRows[e.id]]

RECURSIVE SumSeq(_)
SumSeq(q) == IF q = << >> THEN 0 ELSE Head(q) + SumSeq(Tail(q))

\* related rows of an Event as nested items: the first n of them, each
\* with the Event it belongs to and its place in the manager's order
NESTED_LIMIT == 10
Items(event_id, n) == [i \in 1..n |-> [event |-> event_id, n |-> i]]

\* sum(ratings) / count as a float, kept in millionths
Mean(ratings) == (SumSeq(ratings) * 1000000) \div Len(ratings)

\* What goes wrong while one record is serialized.  "getter": the body of
\* get_<prop> raises; "field": the field of column prop raises outside any
\* getter; "skip" / "error": super().to_representation raises SkipField /
\* another exception outside get_properties; fallbackOk: whether the
\* except branch then builds its first dictionary without raising again
NoFault == [kind |-> "none", prop |-> "", fallbackOk |-> TRUE]
Faults ==
    {NoFault}
    \cup {[kind |-> "getter", prop |-> p, fallbackOk |-> TRUE] :
             p \in MethodFields}
    \cup {[kind |-> "field", prop |-> p, fallbackOk |-> TRUE] :
             p \in ColumnFields}
    \cup {[kind |-> k, prop |-> "", fallbackOk |-> b] :
             k \in {"skip", "error"}, b \in BOOLEAN}

\* what get_<name> returns from its except branch
GetterDefault(name) ==
    CASE name \in {"tags_list", "media", "reviews", "attendees"} ->
            Js("list", << >>)
      [] name \in {"is_upcoming", "is_past"} -> Js("bool", FALSE)
      [] name = "attendee_count" -> Js("int", 0)
      [] OTHER -> JsNull

\* getters that would build the nested object without looking whether
\* the relation is there
GetterBodyUnguarded(name, obj, ref, now) ==
    CASE name = "category" -> Js("obj", obj.row.category_id)
      [] name = "organizer" -> Js("obj", obj.organizer_id)
      [] name = "country" -> Js("obj", obj.country_id)
      [] name = "tags_list" -> Js("list", TagList(obj.row.tags))
      [] name = "is_upcoming" -> Js("bool", obj.row.when > now)
      [] name = "is_past" -> Js("bool", obj.row.when < now)
      [] name = "distance" -> get_distance(obj.row, ref)
      [] name = "attendee_count" -> Js("int", obj.attendees)
      [] name = "average_rating" ->
            IF obj.ratings = << >> THEN JsNull
            ELSE Js("float", Mean(obj.ratings))
      [] name = "media" -> Js("list", << >>)
      [] name = "reviews" ->
            Js("list", Items(obj.row.id, Min2(Len(obj.ratings), NESTED_LIMIT)))
      [] name = "attendees" ->
            Js("list", Items(obj.row.id, Min2(obj.attendees, NESTED_LIMIT)))
      [] OTHER -> JsNull
\* what the try block of get_<name> returns.  get_media looks for the
\* attribute media_files, which an Event does not have (the related name
\* of EventMedia.event is media), and so returns its default
GetterBody(name, obj, ref, now) ==
    CASE name = "category" ->
            IF obj.row.category_id # 0
            THEN Js("obj", obj.row.category_id) ELSE JsNull
      [] name = "organizer" ->
            IF obj.organizer_id # 0 THEN Js("obj", obj.organizer_id) ELSE JsNull
      [] name = "country" ->
            IF obj.country_id # 0 THEN Js("obj", obj.country_id) ELSE JsNull
      [] name = "tags_list" -> Js("list", TagList(obj.row.tags))
      [] name = "is_upcoming" -> Js("bool", obj.row.when > now)
      [] name = "is_past" -> Js("bool", obj.row.when < now)
      [] name = "distance" -> get_distance(obj.row, ref)
      [] name = "attendee_count" -> Js("int", obj.attendees)
      [] name = "average_rating" ->
            IF obj.ratings = << >> THEN JsNull
            ELSE Js("float", Mean(obj.ratings))
      [] name = "media" -> Js("list", << >>)
      [] name = "reviews" ->
            Js("list", Items(obj.row.id, Min2(Len(obj.ratings), NESTED_LIMIT)))
      [] name = "attendees" ->
            Js("list", Items(obj.row.id, Min2(obj.attendees, NESTED_LIMIT)))
      [] OTHER -> JsNull

\* field.get_attribute(instance) and field.to_representation(value) of
\* one field: the value, or raised.  The getters catch what their body
\* raises; parent_event has no method to call (AttributeError).
FieldValue(name, obj, ref, now, fault) ==
    IF name = "parent_event" THEN [raised |-> TRUE, value |-> JsNull]
    ELSE IF name \in MethodFields
    THEN [raised |-> FALSE,
          value |-> IF fault.kind = "getter" /\ fault.prop = name
                    THEN GetterDefault(name)
                    ELSE GetterBody(name, obj, ref, now)]
    ELSE [raised |-> fault.kind = "field" /\ fault.prop = name,
          value |-> CASE name = "title" -> Js("str", obj.row.title)
                      [] name = "description" -> Js("str", obj.row.description)
                      [] name = "when" -> Js("time", obj.row.when)
                      [] name = "tags" -> Js("str", obj.row.tags)]

\* a get_properties without the try per field: the first field that
\* raises ends it
get_properties_uncaught(obj, ref, now, fault) ==
    LET got == [name \in PropertyFields |->
                   FieldValue(name, obj, ref, now, fault)]
        kept == {name \in PropertyFields : ~got[name].raised}
    IN  [raised |-> kept # PropertyFields,
         properties |-> [name \in kept |-> got[name].value]]
\* get_properties: every field in its own try; a field that raises
\* (SkipField, AttributeError, anything else) is left out
get_properties(obj, ref, now, fault) ==
    LET got == [name \in PropertyFields |->
                   FieldValue(name, obj, ref, now, fault)]
        kept == {name \in PropertyFields : ~got[name].raised}
    IN  [raised |-> FALSE,
         properties |-> [name \in kept |-> got[name].value]]

Str_Event == <<"E", "v", "e", "n", "t">>

\* coordinates written latitude first
PointGeoJsonSwapped(location) == Js("point", <<location[2], location[1]>>)
\* the geometry of a Feature: {'type': 'Point', 'coordinates':
\* [location.x, location.y]}
PointGeoJson(location) == Js("point", <<location[1], location[2]>>)

\* a to_representation without its try: what super() raises is raised
to_representation_uncaught(obj, ref, now, fault) ==
    LET props == get_properties(obj, ref, now, fault)
    IN  [raised |-> fault.kind \in {"skip", "error"} \/ props.raised,
         feature |-> [type |-> "Feature", id |-> Js("int", obj.row.id),
                      geometry |-> PointGeoJson(obj.row.location),
                      properties |-> props.properties]]
\* to_representation: the Feature of super() (id, type, geometry,
\* properties); on SkipField a Feature with the geometry and id, title,
\* description and when, or {id, title: 'Event'} without geometry; on any
\* other exception a Feature without geometry with id and title, or id
to_representation(obj, ref, now, fault) ==
    LET props == get_properties(obj, ref, now, fault)
        id == Js("int", obj.row.id)
        title == Js("str", obj.row.title)
        minimal(geom, properties) ==
            [raised |-> FALSE,
             feature |-> [type |-> "Feature", id |-> Absent,
                          geometry |-> geom, properties |-> properties]]
    IN  IF fault.kind = "skip"
        THEN IF fault.fallbackOk
             THEN minimal(PointGeoJson(obj.row.location),
                          [name \in {"id", "title", "description", "when"} |->
                              CASE name = "id" -> id
                                [] name = "title" -> title
                                [] name = "description" ->
                                      Js("str", obj.row.description)
                                [] name = "when" -> Js("time", obj.row.when)])
             ELSE minimal(JsNull,
                          [name \in {"id", "title"} |->
                              IF name = "id" THEN id ELSE Js("str", Str_Event)])
        ELSE IF fault.kind = "error" \/ props.raised
        THEN IF fault.fallbackOk
             THEN minimal(JsNull, [name \in {"id", "title"} |->
                                      IF name = "id" THEN id ELSE title])
             ELSE minimal(JsNull, [name \in {"id"} |-> id])
        ELSE [raised |-> FALSE,
              feature |-> [type |-> "Feature", id |-> id,
                           geometry |-> PointGeoJson(obj.row.location),
                           properties |-> props.properties]]

\* the lat and lng of the request behind a run: none for a view that
\* passes no reference point
RenderQueries ==
    {[lat |-> Absent, lng |-> Absent], [lat |-> Num(0), lng |-> Num(0)],
     [lat |-> Num(2), lng |-> Num(4)]}

NoFeature == [type |-> "", id |-> Absent, geometry |-> JsNull,
              properties |-> [name \in {} |-> JsNull]]
NotRendering ==
    [pc |-> "idle", rows |-> << >>, GET |-> [lat |-> Absent, lng |-> Absent],
     ref |-> NoRef, now |-> 0, done |-> 0,
     count |-> 0, fault |-> NoFault, feature |-> NoFeature]

-----------------------------------------------------------------------------
(* The fix_route_coordinates command *)

NoCountry == "none"

\* country_bounds: code -> (min_lng, max_lng, min_lat, max_lat), degrees
country_bounds ==
    [code \in {"US", "GB", "FR", "ES", "IT", "DE", "CN", "JP", "AU", "NZ",
               "NP", "PE", "IS"} |->
        CASE code = "US" -> <<-180, -66, 18, 72>>
          [] code = "GB" -> <<-10, 2, 50, 61>>
          [] code = "FR" -> <<-5, 10, 42, 51>>
          [] code = "ES" -> <<-10, 5, 36, 44>>
          [] code = "IT" -> <<6, 19, 36, 47>>
          [] code = "DE" -> <<5, 15, 47, 55>>
          [] code = "CN" -> <<73, 135, 18, 54>>
          [] code = "JP" -> <<123, 146, 24, 46>>
          [] code = "AU" -> <<113, 154, -44, -10>>
          [] code = "NZ" -> <<166, 179, -48, -34>>
          [] code = "NP" -> <<80, 89, 26, 31>>
          [] code = "PE" -> <<-82, -68, -20, 0>>
          [] code = "IS" -> <<-25, -13, 63, 67>>]

\* min_lng <= x <= max_lng and min_lat <= y <= max_lat
InBounds(bounds, x, y) ==
    /\ bounds[1] <= x /\ x <= bounds[2]
    /\ bounds[3] <= y /\ y <= bounds[4]

\* needs_fix, decided on the first coordinate of a route with coordinates
needs_fix(route) ==
    LET x == route.path[1][1]
        y == route.path[1][2]
    IN  IF Abs(x) > 180 \/ Abs(y) > 90 THEN TRUE
        ELSE IF Abs(x) <= 90 /\ Abs(y) > 90 /\ Abs(y) <= 180 THEN TRUE
        ELSE IF route.country # NoCountry
             THEN IF route.country \in DOMAIN country_bounds
                  THEN LET bounds == country_bounds[route.country]
                       IN  /\ ~InBounds(bounds, x, y)
                           /\ InBounds(bounds, y, x)
                  ELSE FALSE
             ELSE FALSE

\* fixed_coords: (x, y) -> (y, x) for all points
fixed_coords(coords) ==
    [i \in DOMAIN coords |-> <<coords[i][2], coords[i][1]>>]

\* paths as they are stored: (longitude, latitude) in whole degrees
PathGermany == <<<<10, 50>>, <<11, 51>>>>
PathGermanySwapped == <<<<50, 10>>, <<51, 11>>>>
PathChinaSwapped == <<<<40, 116>>, <<41, 117>>>>
PathBeyondLongitude == <<<<200, 50>>, <<201, 50>>>>
PathBeyondBoth == <<<<100, 120>>, <<101, 121>>>>
StoredPaths ==
    {PathGermany, PathGermanySwapped, PathChinaSwapped, PathBeyondLongitude,
     PathBeyondBoth, << >>}
\* no country, countries with bounds, a country without bounds
StoredCountries == {NoCountry, "DE", "CN", "IE"}

NumRoutes == 2
RouteTables ==
    [1..NumRoutes -> [path : StoredPaths, country : StoredCountries]]
SeededPaths ==
    [r \in 1..NumRoutes |-> [path |-> PathGermany, country |-> "DE"]]

\* the command is not running and has not run
NotFixing == [pos |-> 0, runs |-> 0, fixed |-> {}]

-----------------------------------------------------------------------------
(* The worker *)

\* The requests every endpoint is called with where the endpoints run side
\* by side; on these the serializer may also fail as a whole
CoreRequests ==
    [nearby |-> {NearbyGET(Num(2), Num(2), Num(240)),
                 NearbyGET(Num(4), Num(4), Absent),
                 NearbyGET(Junk, Num(4), Num(240))},
     today_nearby |-> {NearbyGET(Num(0), Num(0), Num(240)),
                       NearbyGET(Num(2), Num(2), Absent),
                       NearbyGET(Num(2), Absent, Num(240))},
     ranked_by_distance |->
         {[lat |-> Num(2), lng |-> Num(4), limit |-> Absent],
          [lat |-> Num(0), lng |-> Num(0), limit |-> Num(4)],
          [lat |-> Num(0), lng |-> Num(0), limit |-> Num(-2)],
          [lat |-> Num(0), lng |-> Num(0), limit |-> Num(3)]},
     in_neighborhood |-> {HoodGET(Num(2)), HoodGET(Num(4)), HoodGET(Absent)},
     along_route |-> {RouteGET(Num(2), Num(400)), RouteGET(Num(4), Junk),
                      RouteGET(Num(18), Absent)},
     in_polygon |-> {PolygonGET(Json(Coords(Triangle))), PolygonGET(Absent)},
     body |-> {Body("Polygon", "absent", TRUE, <<Coords(Square)>>),
               Body("Polygon", "absent", TRUE, <<Coords(Unclosed)>>)},
     list |-> {ListGET(bbox, Absent, Absent, Absent, Absent, "", "", "", page, Absent) :
                  bbox \in {Absent, GoodBbox, Arity3Bbox}, page \in {Absent, Num(4)}}]

\* whether reading ser.data goes through: it may raise where a worker is
\* exposed to failures of the database under the serializer
SerFaults == BOOLEAN
NoSerFaults == {TRUE}

NumWorkers == 2
Workers == 1..NumWorkers
IdleWorker == [pc |-> "idle", req |-> NoRequest, resp |-> NoResponse,
               calls |-> << >>, wrote |-> FALSE]

Init ==
    /\ events \in Datasets
    /\ hoods = StoredHoods
    /\ routes = StoredRoutes
    /\ log = << >>
    /\ pc = "idle"
    /\ req = NoRequest
    /\ resp = NoResponse
    /\ queried = FALSE
    /\ logged = 0
    /\ workers = [w \in Workers |-> IdleWorker]
    /\ rendered = NotRendering
    /\ route_paths = SeededPaths
    /\ fixer = NotFixing

\* a worker that would delete the Events it returned
HandlePurging(r, out, dbOk) ==
    LET written == LogAll(log, out.logcalls, dbOk)
    IN  /\ pc = "idle"
        /\ Len(log) + Len(out.logcalls) <= MaxLog
        /\ pc' = "responded"
        /\ req' = r
        /\ resp' = IF written.raised THEN ServerError ELSE out.resp
        /\ queried' = out.queried
        /\ log' = written.rows
        /\ logged' = Len(log') - Len(log)
        /\ events' = {e \in events :
                         \A i \in DOMAIN out.resp.features :
                             out.resp.features[i].id # e.id}
        /\ UNCHANGED <<hoods, routes, workers, rendered, route_paths, fixer>>

\* The worker takes request r and answers it with outcome out; the log
\* writes succeed or fail as the database decides (dbOk).
Handle(r, out, dbOk) ==
    LET written == LogAll(log, out.logcalls, dbOk)
    IN  /\ pc = "idle"
        /\ Len(log) + Len(out.logcalls) <= MaxLog
        /\ pc' = "responded"
        /\ req' = r
        /\ resp' = IF written.raised THEN ServerError ELSE out.resp
        /\ queried' = out.queried
        /\ log' = written.rows
        /\ logged' = Len(log') - Len(log)
        /\ UNCHANGED <<events, hoods, routes, workers, rendered, route_paths, fixer>>

Nearby(Requests, SerOks) ==
    \E GET \in Requests, tieUp \in BOOLEAN, dbOk \in BOOLEAN :
      \E serOk \in SerOks :
        Handle([ep |-> "nearby", GET |-> GET, tieUp |-> tieUp,
                serOk |-> serOk],
               nearby(GET, events, tieUp, serOk), dbOk)

InNeighborhood(Requests, SerOks) ==
    \E GET \in Requests, tieUp \in BOOLEAN, dbOk \in BOOLEAN :
      \E serOk \in SerOks :
        Handle([ep |-> "in_neighborhood", GET |-> GET, tieUp |-> tieUp,
                serOk |-> serOk],
               in_neighborhood(GET, events, hoods, tieUp, serOk), dbOk)

AlongRoute(Requests, SerOks) ==
    \E GET \in Requests, tieUp \in BOOLEAN, dbOk \in BOOLEAN :
      \E serOk \in SerOks :
        Handle([ep |-> "along_route", GET |-> GET, tieUp |-> tieUp,
                serOk |-> serOk],
               along_route(GET, events, routes, tieUp, serOk), dbOk)

InPolygonGet(Requests, SerOks) ==
    \E GET \in Requests, tieUp \in BOOLEAN, dbOk \in BOOLEAN :
      \E serOk \in SerOks :
        Handle([ep |-> "in_polygon", method |-> "GET", GET |-> GET,
                data |-> NoBody, tieUp |-> tieUp, serOk |-> serOk],
               in_polygon("GET", GET, NoBody, events, tieUp, serOk), dbOk)

InPolygonPost(Bodies, SerOks) ==
    \E data \in Bodies, tieUp \in BOOLEAN, dbOk \in BOOLEAN :
      \E serOk \in SerOks :
        Handle([ep |-> "in_polygon", method |-> "POST",
                GET |-> PolygonGET(Absent), data |-> data, tieUp |-> tieUp,
                serOk |-> serOk],
               in_polygon("POST", PolygonGET(Absent), data, events, tieUp,
                          serOk),
               dbOk)

List(Requests, SerOks) ==
    \E GET \in Requests, now \in Nows, tieUp \in BOOLEAN, dbOk \in BOOLEAN :
      \E serOk \in SerOks :
        Handle([ep |-> "list", GET |-> GET, now |-> now, tieUp |-> tieUp,
                serOk |-> serOk],
               list(GET, now, events, tieUp, serOk), dbOk)

TodayNearby(Requests, SerOks) ==
    \E GET \in Requests, now \in Nows, tieUp \in BOOLEAN, dbOk \in BOOLEAN :
      \E serOk \in SerOks :
        Handle([ep |-> "today_nearby", GET |-> GET, now |-> now,
                tieUp |-> tieUp, serOk |-> serOk],
               today_nearby(GET, now, events, tieUp, serOk), dbOk)

RankedByDistance(Requests, SerOks) ==
    \E GET \in Requests, tieUp \in BOOLEAN, dbOk \in BOOLEAN :
      \E serOk \in SerOks :
        Handle([ep |-> "ranked_by_distance", GET |-> GET, tieUp |-> tieUp,
                serOk |-> serOk],
               ranked_by_distance(GET, events, tieUp, serOk), dbOk)

Stats ==
    \E now \in Nows, dbOk \in BOOLEAN :
        Handle([ep |-> "stats", GET |-> [lat |-> Absent, lng |-> Absent],
                now |-> now, tieUp |-> FALSE, serOk |-> TRUE],
               stats(now, events), dbOk)

\* The response is delivered and the worker waits for the next request.
Deliver ==
    /\ pc = "responded"
    /\ pc' = "idle"
    /\ req' = NoRequest
    /\ resp' = NoResponse
    /\ queried' = FALSE
    /\ logged' = 0
    /\ UNCHANGED <<events, hoods, routes, log, workers, rendered, route_paths, fixer>>

NearbyNext == Nearby(NearbyRequests, NoSerFaults) \/ Deliver
SpecNearby == Init /\ [][NearbyNext]_vars

PolygonNext ==
    \/ InPolygonGet(PolygonGetRequests, NoSerFaults)
    \/ InPolygonPost(PolygonBodies, NoSerFaults)
    \/ InNeighborhood(HoodRequests, NoSerFaults)
    \/ Deliver
SpecPolygon == Init /\ [][PolygonNext]_vars

RouteNext == AlongRoute(RouteRequests, NoSerFaults) \/ InNeighborhood(HoodRequests, NoSerFaults) \/ Deliver
SpecRoute == Init /\ [][RouteNext]_vars

ListNext == List(ListRequests, NoSerFaults) \/ Deliver
SpecList == Init /\ [][ListNext]_vars

\* All the endpoints side by side, on the core requests
QueriesNext ==
    \/ Nearby(CoreRequests.nearby, SerFaults)
    \/ TodayNearby(CoreRequests.today_nearby, SerFaults)
    \/ RankedByDistance(CoreRequests.ranked_by_distance, SerFaults)
    \/ InNeighborhood(CoreRequests.in_neighborhood, SerFaults)
    \/ AlongRoute(CoreRequests.along_route, SerFaults)
    \/ InPolygonGet(CoreRequests.in_polygon, SerFaults)
    \/ InPolygonPost(CoreRequests.body, SerFaults)
    \/ List(CoreRequests.list, SerFaults)
    \/ Stats
    \/ Deliver
SpecQueries == Init /\ [][QueriesNext]_vars


-----------------------------------------------------------------------------
(* Workers side by side.  Each worker handles one nearby request in the   *)
(* steps the code takes: the parameters are parsed and the query is run    *)
(* into the worker's own locals, the row is inserted into the shared       *)
(* SpatialQueryLog table, the response is returned.                        *)

Begin(w) ==
    \E GET \in CoreRequests.nearby, tieUp \in BOOLEAN :
        LET out == nearby(GET, events, tieUp, TRUE)
        IN  /\ workers[w].pc = "idle"
            /\ workers' = [workers EXCEPT ![w] =
                  [pc |-> IF out.logcalls = << >> THEN "logged" ELSE "queried",
                   req |-> [ep |-> "nearby", GET |-> GET, tieUp |-> tieUp,
                            serOk |-> TRUE],
                   resp |-> out.resp, calls |-> out.logcalls,
                   wrote |-> FALSE]]
            /\ UNCHANGED <<events, hoods, routes, log, pc, req, resp,
                           queried, logged, rendered, route_paths, fixer>>

WriteLog(w) ==
    \E dbOk \in BOOLEAN :
        LET written == LogAll(log, workers[w].calls, dbOk)
        IN  /\ workers[w].pc = "queried"
            /\ log' = written.rows
            /\ workers' = [workers EXCEPT ![w].pc = "logged",
                                          ![w].wrote = dbOk,
                                          ![w].resp = IF written.raised
                                                      THEN ServerError ELSE @]
            /\ UNCHANGED <<events, hoods, routes, pc, req, resp, queried,
                           logged, rendered, route_paths, fixer>>

Respond(w) ==
    /\ workers[w].pc = "logged"
    /\ workers' = [workers EXCEPT ![w].pc = "done"]
    /\ UNCHANGED <<events, hoods, routes, log, pc, req, resp, queried, logged,
                   rendered, route_paths, fixer>>

WorkersNext == \E w \in Workers : Begin(w) \/ WriteLog(w) \/ Respond(w)
SpecWorkers == Init /\ [][WorkersNext]_vars

-----------------------------------------------------------------------------
(* A run of EventGeoSerializer(qs, many=True).data: the list serializer    *)
(* calls to_representation on the rows of the queryset one after another.  *)

BeginRender ==
    \E GET \in RenderQueries, now \in Nows, tieUp \in BOOLEAN :
        /\ rendered.pc = "idle"
        /\ rendered' = [NotRendering EXCEPT
              !.pc = "rendering",
              !.rows = SortRows(get_queryset(events), META_ORDERING, tieUp),
              !.GET = GET,
              !.ref = IF GET.lat.k = "absent" THEN NoRef
                      ELSE Point(FloatVal(GET.lng), FloatVal(GET.lat)),
              !.now = now]
        /\ UNCHANGED <<events, hoods, routes, log, pc, req, resp, queried,
                       logged, workers, route_paths, fixer>>

\* the next row: a Feature is added to the data, or the exception
\* to_representation lets out ends the run
RenderRow ==
    \E fault \in Faults :
        /\ rendered.pc = "rendering"
        /\ rendered.done < Len(rendered.rows)
        /\ LET obj == Instance(rendered.rows[rendered.done + 1])
               out == to_representation(obj, rendered.ref, rendered.now, fault)
           IN  rendered' =
                  IF out.raised
                  THEN [rendered EXCEPT !.pc = "failed", !.fault = fault,
                                        !.done = @ + 1]
                  ELSE [rendered EXCEPT !.done = @ + 1, !.count = @ + 1,
                                        !.fault = fault,
                                        !.feature = out.feature]
        /\ UNCHANGED <<events, hoods, routes, log, pc, req, resp, queried,
                       logged, workers, route_paths, fixer>>

SerializerNext == BeginRender \/ RenderRow
SpecSerializer == Init /\ [][SerializerNext]_vars

-----------------------------------------------------------------------------
(* A run of fix_route_coordinates, route by route *)

MaxRuns == 2

\* handle starts: fixed_count = 0
StartRun ==
    /\ fixer.pos = 0
    /\ fixer.runs < MaxRuns
    /\ fixer' = [fixer EXCEPT !.pos = 1, !.fixed = {}]
    /\ UNCHANGED <<events, hoods, routes, log, pc, req, resp, queried,
                   logged, workers, rendered, route_paths>>

\* one turn of the loop: a route without coordinates is skipped, a route
\* that needs the fix has all its points swapped and is saved
FixRoute ==
    /\ fixer.pos \in 1..NumRoutes
    /\ LET route == route_paths[fixer.pos]
           fix == route.path # << >> /\ needs_fix(route)
       IN  /\ route_paths' =
                 IF fix
                 THEN [route_paths EXCEPT ![fixer.pos].path =
                                              fixed_coords(route.path)]
                 ELSE route_paths
           /\ fixer' = [fixer EXCEPT
                           !.pos = @ + 1,
                           !.fixed = IF fix THEN @ \cup {fixer.pos} ELSE @]
    /\ UNCHANGED <<events, hoods, routes, log, pc, req, resp, queried,
                   logged, workers, rendered>>

\* the loop is over: the command reports fixed_count and ends
FinishRun ==
    /\ fixer.pos = NumRoutes + 1
    /\ fixer' = [fixer EXCEPT !.pos = 0, !.runs = @ + 1]
    /\ UNCHANGED <<events, hoods, routes, log, pc, req, resp, queried,
                   logged, workers, rendered, route_paths>>

\* the command runs over any stored routes
InitFix ==
    /\ events = EventPool
    /\ hoods = StoredHoods
    /\ routes = StoredRoutes
    /\ log = << >>
    /\ pc = "idle"
    /\ req = NoRequest
    /\ resp = NoResponse
    /\ queried = FALSE
    /\ logged = 0
    /\ workers = [w \in Workers |-> IdleWorker]
    /\ rendered = NotRendering
    /\ route_paths \in RouteTables
    /\ fixer = NotFixing

FixNext == StartRun \/ FixRoute \/ FinishRun
SpecFix == InitFix /\ [][FixNext]_vars

\* every action of the model
Next ==
    \/ Nearby(NearbyRequests, NoSerFaults)
    \/ TodayNearby(CoreRequests.today_nearby, NoSerFaults)
    \/ RankedByDistance(CoreRequests.ranked_by_distance, NoSerFaults)
    \/ InNeighborhood(HoodRequests, NoSerFaults)
    \/ AlongRoute(RouteRequests, NoSerFaults)
    \/ InPolygonGet(PolygonGetRequests, NoSerFaults)
    \/ InPolygonPost(PolygonBodies, NoSerFaults)
    \/ List(ListRequests, NoSerFaults)
    \/ Stats
    \/ Deliver
    \/ WorkersNext
    \/ SerializerNext
    \/ FixNext
Spec == Init /\ [][Next]_vars

-----------------------------------------------------------------------------
(* Properties *)

Responded(ep) == pc = "responded" /\ req.ep = ep

\* the documented ranges: latitude in [-90, 90], longitude in [-180, 180]
\* degrees, radius in (0, 50000] metres
LatInRange(tok) == tok.k = "num" /\ tok.v >= -(2 * 90 * 1000) /\ tok.v <= 2 * 90 * 1000
LngInRange(tok) == tok.k = "num" /\ tok.v >= -(2 * 180 * 1000) /\ tok.v <= 2 * 180 * 1000
RadiusInRange(tok) ==
    tok.k = "absent" \/ (tok.k = "num" /\ tok.v > 0 /\ tok.v <= 2 * 50 * 1000)
WholeNumber(tok) == tok.k = "num" /\ tok.v % 2 = 0

\* the requested radius in half-metres (1000 m when none is given)
RadiusHalves(tok) == IF tok.k = "absent" THEN 2 * 1000 ELSE tok.v

\* ids of the stored Events at most h half-metres from <<lng, lat>>
EventsWithin(lng, lat, h) ==
    {e.id : e \in {f \in events :
        Dist2(f.location, <<lng, lat>>) <= SqFloor(h, HalfMetresPerUnit)}}

ExactlyTheEvents(ids) ==
    /\ resp.status = 200
    /\ resp.fc
    /\ Ids(resp.features) = ids
    /\ Len(resp.features) = Cardinality(ids)

\* C1 as stated: for every valid lat, lng and radius, nearby returns
\* exactly the Events at most radius metres from (lng, lat).
C1_AsStated ==
    (/\ Responded("nearby")
     /\ LatInRange(req.GET.lat) /\ LngInRange(req.GET.lng)
     /\ RadiusInRange(req.GET.radius))
    => ExactlyTheEvents(EventsWithin(req.GET.lng.v, req.GET.lat.v,
                                     RadiusHalves(req.GET.radius)))

\* C1 amended: for every valid lat and lng and every valid radius that is
\* a whole number of metres (or omitted: 1000), nearby returns exactly the
\* Events at most radius metres from (lng, lat); none within is left out
\* and none beyond is included.
C1_NearbyExact ==
    (/\ Responded("nearby")
     /\ LatInRange(req.GET.lat) /\ LngInRange(req.GET.lng)
     /\ RadiusInRange(req.GET.radius)
     /\ (req.GET.radius.k = "absent" \/ WholeNumber(req.GET.radius)))
    => ExactlyTheEvents(EventsWithin(req.GET.lng.v, req.GET.lat.v,
                                     RadiusHalves(req.GET.radius)))

\* a nearby answer that holds some stored Events and leaves others out
C1_Witness ==
    /\ Responded("nearby")
    /\ LatInRange(req.GET.lat) /\ LngInRange(req.GET.lng)
    /\ WholeNumber(req.GET.radius) /\ RadiusInRange(req.GET.radius)
    /\ resp.status = 200
    /\ Ids(resp.features) # {}
    /\ \E e \in events : e.id \notin Ids(resp.features)

\* the polygon a request supplies, all its rings
SuppliedPolygon ==
    IF req.method = "POST"
    THEN Poly(req.data.rings[1].pts,
              [j \in 1..(Len(req.data.rings) - 1) |-> req.data.rings[j + 1].pts])
    ELSE Poly(req.GET.polygon.v.pts, << >>)

\* twice the signed area a ring encloses
RECURSIVE Shoelace(_, _)
Shoelace(ring, i) ==
    IF i >= Len(ring) THEN 0
    ELSE ring[i][1] * ring[i + 1][2] - ring[i + 1][1] * ring[i][2]
         + Shoelace(ring, i + 1)

\* a closed ring of at least four points that encloses an area
ValidRing(c) ==
    /\ c.isList
    /\ Len(c.pts) >= 4
    /\ c.pts[1] = c.pts[Len(c.pts)]
    /\ Shoelace(c.pts, 1) # 0

\* a request that supplies a well-formed polygon
WellFormedPolygon ==
    IF req.method = "POST"
    THEN /\ req.data.parsed
         /\ \/ req.data.type = "Polygon"
            \/ req.data.type = "Feature" /\ req.data.gtype = "Polygon"
         /\ req.data.hasCoords
         /\ Len(req.data.rings) >= 1
         /\ \A j \in 1..Len(req.data.rings) : ValidRing(req.data.rings[j])
    ELSE req.GET.polygon.k = "json" /\ ValidRing(req.GET.polygon.v)

\* C2 as stated: for every well-formed polygon P, in_polygon returns
\* exactly the Events inside P or on P's boundary, never one outside P.
C2_AsStated ==
    (Responded("in_polygon") /\ WellFormedPolygon)
    => ExactlyTheEvents({e.id : e \in {f \in events :
                            Covers(f.location, SuppliedPolygon)}})

\* C3 as stated: in_neighborhood with a stored neighborhood N returns the
\* same Event ids as in_polygon called with N's area polygon.
C3_AsStated ==
    (Responded("in_neighborhood") /\ resp.status = 200)
    => LET area == RowById(hoods, IntVal(req.GET.neighborhood_id)).area
           rings == <<Coords(area.shell)>>
                    \o [j \in 1..Len(area.holes) |-> Coords(area.holes[j])]
           other == in_polygon("POST", PolygonGET(Absent),
                               Body("Polygon", "absent", TRUE, rings),
                               events, req.tieUp, req.serOk)
       IN  Ids(resp.features) = Ids(other.resp.features)

RouteFound ==
    /\ WholeNumber(req.GET.route_id)
    /\ \E r \in routes : r.id = req.GET.route_id.v \div 2

RoutePath == (CHOOSE r \in routes : r.id = req.GET.route_id.v \div 2).path

EventsAlong(path, h) ==
    {e.id : e \in {f \in events : PathDistanceLte(f.location, path, h)}}

\* C4 as stated: for every route R and buffer b, along_route returns
\* exactly the Events at most b metres from R's path; the default buffer
\* is used when the parameter is absent.
C4_AsStated ==
    (/\ Responded("along_route") /\ RouteFound
     /\ req.GET.buffer.k \in {"absent", "num"})
    => ExactlyTheEvents(EventsAlong(RoutePath,
          IF req.GET.buffer.k = "absent" THEN 2 * 200 ELSE req.GET.buffer.v))

NotANumber(tok) == tok.k \in {"absent", "junk", "empty"}

\* C5: a nearby request whose lat or lng is missing or no number, or whose
\* radius is no number, gets a 400 with an `error` key, evaluates no Event
\* query and adds no SpatialQueryLog row.
C5_NearbyRejects ==
    (/\ Responded("nearby")
     /\ \/ NotANumber(req.GET.lat)
        \/ NotANumber(req.GET.lng)
        \/ req.GET.radius.k \in {"junk", "empty"})
    => /\ resp.status = 400
       /\ resp.key = "error"
       /\ ~resp.fc
       /\ ~queried
       /\ logged = 0

\* a rejected nearby request whose lat is fine: lng or radius was bad
C5_Witness ==
    /\ Responded("nearby")
    /\ LatInRange(req.GET.lat)
    /\ NotANumber(req.GET.lng) \/ req.GET.radius.k = "junk"
    /\ resp.status = 400

\* C6 as stated: a nearby request with numeric lat outside [-90, 90] or
\* numeric lng outside [-180, 180] is rejected with a 400 and returns no
\* FeatureCollection.
C6_AsStated ==
    (/\ Responded("nearby")
     /\ req.GET.lat.k = "num" /\ req.GET.lng.k = "num"
     /\ ~LatInRange(req.GET.lat) \/ ~LngInRange(req.GET.lng))
    => (resp.status = 400 /\ ~resp.fc)

\* C7 as stated: a nearby request whose radius is <= 0 or above the
\* allowed maximum is rejected with a 4xx; no query runs with that radius.
C7_AsStated ==
    (/\ Responded("nearby")
     /\ req.GET.radius.k = "num" /\ ~RadiusInRange(req.GET.radius))
    => (resp.status \in 400..499 /\ ~queried)

IdToken == IF req.ep = "in_neighborhood" THEN req.GET.neighborhood_id
           ELSE req.GET.route_id
StoredRows == IF req.ep = "in_neighborhood" THEN hoods ELSE routes
NamesStoredRow ==
    WholeNumber(IdToken) /\ \E r \in StoredRows : r.id = IdToken.v \div 2

\* C8 as stated: in_neighborhood and along_route answer a request without
\* the id parameter with a 400 carrying an `error` key, and a request
\* whose id names no stored row with a 404; neither evaluates an Event
\* query nor adds a SpatialQueryLog row.
C8_AsStated ==
    (Responded("in_neighborhood") \/ Responded("along_route"))
    => /\ IdToken.k \in {"absent", "empty"}
            => (resp.status = 400 /\ resp.key = "error"
                /\ ~queried /\ logged = 0)
       /\ (IdToken.k \notin {"absent", "empty"} /\ ~NamesStoredRow)
            => (resp.status = 404 /\ ~queried /\ logged = 0)

\* C9 as stated: every in_polygon request whose polygon is missing or
\* malformed gets a 400; it never returns a FeatureCollection and never
\* adds a log row.
C9_AsStated ==
    (Responded("in_polygon") /\ ~WellFormedPolygon)
    => (resp.status = 400 /\ ~resp.fc /\ logged = 0)

MalformedBbox(tok) ==
    /\ tok.k = "csv"
    /\ Len(tok.v) # 4 \/ \E i \in 1..Len(tok.v) : tok.v[i].k # "num"

\* C10: in the events list a malformed bbox (wrong number of parts, or a
\* part that is no number) is no error and leaves the bbox filter
\* unapplied: the response is that of the same request without bbox, the
\* other filters still applied, and no log row is added.
C10_MalformedBboxIgnored ==
    (Responded("list") /\ MalformedBbox(req.GET.bbox))
    => /\ resp = list([req.GET EXCEPT !.bbox = Absent], req.now, events,
                      req.tieUp, req.serOk).resp
       /\ resp.status # 400
       /\ logged = 0
       /\ (resp.fc /\ WholeNumber(req.GET.category))
             => \A e \in events : e.id \in Ids(resp.features)
                   => e.category_id = req.GET.category.v \div 2

\* a list answer to a malformed bbox that the category filter narrowed
C10_Witness ==
    /\ Responded("list") /\ MalformedBbox(req.GET.bbox)
    /\ WholeNumber(req.GET.category)
    /\ resp.fc
    /\ Ids(resp.features) # {}
    /\ \E e \in events : e.id \notin Ids(resp.features)

\* sort keys of an Event that a request may name
SortKeys == {"when", "-when", "title", "-title", "id", "-id"}

\* C11 as stated: in a list endpoint an ordering value that is no sort key
\* is silently ignored: the request succeeds and returns the records it
\* returns without the ordering parameter, never an error.
C11_AsStated ==
    (Responded("list") /\ req.GET.ordering \notin SortKeys \cup {""})
    => /\ resp.status = 200
       /\ resp.fc
       /\ Ids(resp.features) =
             Ids(list([req.GET EXCEPT !.ordering = ""], req.now, events,
                      req.tieUp, req.serOk).resp.features)

\* what the handler of request r makes of it on the stored rows
Handled(r) ==
    CASE r.ep = "nearby" -> nearby(r.GET, events, r.tieUp, r.serOk)
      [] r.ep = "today_nearby" ->
            today_nearby(r.GET, r.now, events, r.tieUp, r.serOk)
      [] r.ep = "ranked_by_distance" ->
            ranked_by_distance(r.GET, events, r.tieUp, r.serOk)
      [] r.ep = "in_neighborhood" ->
            in_neighborhood(r.GET, events, hoods, r.tieUp, r.serOk)
      [] r.ep = "along_route" ->
            along_route(r.GET, events, routes, r.tieUp, r.serOk)
      [] r.ep = "in_polygon" ->
            in_polygon(r.method, r.GET, r.data, events, r.tieUp, r.serOk)
      [] r.ep = "list" -> list(r.GET, r.now, events, r.tieUp, r.serOk)
      [] r.ep = "stats" -> stats(r.now, events)

\* C12: a failure while writing the SpatialQueryLog row never changes the
\* primary response: whether the write fails or succeeds, the status and
\* the body are the ones the request and the stored rows determine.
C12_LogFailureSilent ==
    pc = "responded" => resp = Handled(req).resp

\* a logged request whose log write failed and that was answered 200 with
\* its Events all the same
C12_Witness ==
    /\ pc = "responded"
    /\ Handled(req).logcalls # << >>
    /\ logged = 0
    /\ resp.status = 200
    /\ resp.features # << >>

\* the requests whose query is logged: the five logged actions, and the
\* list when its bbox is usable
LoggedQuery(r) ==
    \/ r.ep \in {"nearby", "in_polygon", "along_route", "in_neighborhood",
                 "ranked_by_distance"}
    \/ r.ep = "list" /\ BboxOk(r.GET.bbox)

\* a handled request leaves the log as it was or with one row added
AppendsAtMostOne ==
    \/ log' = log
    \/ Len(log') = Len(log) + 1 /\ SubSeq(log', 1, Len(log)) = log

\* the log writes of the request in hand
WritesOfRequest ==
    pc = "responded" =>
        LET calls == Handled(req).logcalls
        IN  /\ logged \in {0, Len(calls)}
            /\ (resp.status = 200 /\ LoggedQuery(req)) => Len(calls) = 1
            /\ (resp.status \in 400..499 \/ ~LoggedQuery(req))
                  => (calls = << >> /\ logged = 0)
            /\ logged = 1 => log[Len(log)] = calls[1]

\* C13: SpatialQueryLog is append-only and written once per logged query:
\* a request that completes a logged query makes exactly one log write,
\* which adds one row when it succeeds; a request rejected with a 4xx and
\* a list request without a usable bbox add none; no request changes or
\* removes a row that is already there.
C13_AppendOnlyOnce == []WritesOfRequest /\ [][AppendsAtMostOne]_vars

\* a logged request answered 200 whose row was added behind an older row
C13_Witness ==
    /\ pc = "responded"
    /\ LoggedQuery(req)
    /\ resp.status = 200
    /\ logged = 1
    /\ Len(log) = 2

\* the query type tag of each logging endpoint
TagOf(ep) ==
    CASE ep = "nearby" -> "nearby"
      [] ep = "in_polygon" -> "polygon"
      [] ep = "along_route" -> "route"
      [] ep = "in_neighborhood" -> "neighborhood"
      [] ep = "list" -> "bbox"
      [] ep = "ranked_by_distance" -> "distance_ranked"

\* whether the parameters of a log row are the inputs of request r: the
\* parsed numbers of the query string; of a polygon, the number of points
\* of its ring; of along_route, the buffer in effect
SnapshotOf(r, parameters) ==
    CASE r.ep = "nearby" ->
            /\ parameters.lat = FloatVal(r.GET.lat)
            /\ parameters.lng = FloatVal(r.GET.lng)
            /\ parameters.radius =
                  (IF r.GET.radius.k = "absent" THEN NEARBY_DEFAULT_RADIUS
                   ELSE r.GET.radius.v \div 2)
      [] r.ep = "ranked_by_distance" ->
            /\ parameters.lat = FloatVal(r.GET.lat)
            /\ parameters.lng = FloatVal(r.GET.lng)
            /\ parameters.limit =
                  (IF r.GET.limit.k = "absent" THEN RANKED_DEFAULT_LIMIT
                   ELSE r.GET.limit.v \div 2)
      [] r.ep = "in_neighborhood" ->
            parameters.neighborhood_id = r.GET.neighborhood_id.v \div 2
      [] r.ep = "along_route" ->
            /\ parameters.route_id = r.GET.route_id.v \div 2
            /\ parameters.buffer =
                  (IF r.GET.buffer.k = "num" /\ r.GET.buffer.v % 2 = 0
                   THEN r.GET.buffer.v \div 2 ELSE ROUTE_DEFAULT_BUFFER)
      [] r.ep = "in_polygon" ->
            parameters.polygon_coords_count =
                (IF r.method = "POST" THEN Len(r.data.rings[1].pts)
                 ELSE Len(r.GET.polygon.v.pts))
      [] r.ep = "list" ->
            /\ parameters.min_lng = r.GET.bbox.v[1].v
            /\ parameters.min_lat = r.GET.bbox.v[2].v
            /\ parameters.max_lng = r.GET.bbox.v[3].v
            /\ parameters.max_lat = r.GET.bbox.v[4].v

WritersOf(x) ==
    {w \in Workers : workers[w].wrote /\ workers[w].calls[1] = x}

\* C15: under any interleaving of the workers, a worker's response is the
\* one its own parameters and the stored rows determine, and the log
\* holds exactly one row per request whose log write succeeded, each with
\* that request's own parameters and result count: no row is lost,
\* duplicated or mixed between requests.
C15_WorkersIndependent ==
    /\ \A w \in Workers :
          workers[w].pc # "idle" =>
              LET own == nearby(workers[w].req.GET, events,
                                workers[w].req.tieUp, TRUE)
              IN  /\ workers[w].resp = own.resp
                  /\ workers[w].calls = own.logcalls
                  /\ workers[w].wrote =>
                        /\ workers[w].calls[1].parameters.lat
                              = workers[w].req.GET.lat.v
                        /\ workers[w].calls[1].parameters.lng
                              = workers[w].req.GET.lng.v
                        /\ workers[w].calls[1].result_count
                              = Len(workers[w].resp.features)
    /\ Len(log) = Cardinality({w \in Workers : workers[w].wrote})
    /\ \A i \in 1..Len(log) :
          Cardinality({j \in 1..Len(log) : log[j] = log[i]})
              = Cardinality(WritersOf(log[i]))
    /\ \A w \in Workers :
          workers[w].wrote => \E i \in 1..Len(log) : log[i] = workers[w].calls[1]

\* two workers with different requests, both answered, whose rows were
\* written in the order opposite to the workers' numbers
C15_Witness ==
    /\ workers[1].pc = "done" /\ workers[2].pc = "done"
    /\ workers[1].wrote /\ workers[2].wrote
    /\ workers[1].req.GET # workers[2].req.GET
    /\ log = <<workers[2].calls[1], workers[1].calls[1]>>

\* the endpoints of the model that answer a FeatureCollection
CollectionEndpoints ==
    {"list", "nearby", "in_neighborhood", "along_route", "in_polygon",
     "ranked_by_distance"}

\* C18 as stated: on every endpoint that returns a FeatureCollection, an
\* exception raised while the result set is serialized gives a successful
\* response with an empty FeatureCollection, never a 5xx.
C18_AsStated ==
    (/\ pc = "responded"
     /\ req.ep \in CollectionEndpoints
     /\ ~req.serOk
     /\ Handled([req EXCEPT !.serOk = TRUE]).resp.status = 200)
    => (resp.status = 200 /\ resp.fc /\ resp.features = << >>)

\* the endpoints whose query has a reference point
ReferencePointEndpoints == {"nearby", "today_nearby", "ranked_by_distance"}

\* C20 as stated: a Feature's distance is a number exactly when the query
\* supplied a reference point: the Features of nearby, today_nearby and
\* ranked_by_distance carry the distance from the query point (0 for an
\* Event at the query point), and the Features of the other queries carry
\* no distance.
C20_AsStated ==
    (pc = "responded" /\ resp.status = 200) =>
        \A i \in 1..Len(resp.features) :
            LET f == resp.features[i]
            IN  IF req.ep \in ReferencePointEndpoints
                THEN /\ f.distance.k = "num"
                     /\ f.geometry = <<req.GET.lng.v, req.GET.lat.v>>
                           => f.distance.v = 0
                ELSE f.distance.k = "null"

\* the row serialized last, and the Feature it gives when nothing fails
LastRow == rendered.rows[rendered.done]
Faultless ==
    to_representation(Instance(LastRow), rendered.ref, rendered.now,
                      NoFault).feature

\* C16: when deriving one property of an Event Feature raises, that
\* property is left out or has its default (null, empty list, zero,
\* false); every other property of the record is produced with the value
\* it has when nothing fails, the record is a full Feature of the output,
\* and the run does not fail.
C16_PropertyFailureContained ==
    (rendered.done > 0 /\ rendered.fault.kind \in {"getter", "field"}) =>
        LET p == rendered.fault.prop
            got == rendered.feature.properties
        IN  /\ rendered.pc = "rendering"
            /\ rendered.count = rendered.done
            /\ rendered.feature.type = "Feature"
            /\ rendered.feature.id = Js("int", LastRow.id)
            /\ rendered.feature.geometry.k = "point"
            /\ p \notin DOMAIN got \/ got[p] = GetterDefault(p)
            /\ \A q \in (MethodFields \cup ColumnFields) \ {p} :
                  q \in DOMAIN got /\ got[q] = Faultless.properties[q]

\* get_category raised for an Event that has a category: category is
\* null, the organizer is there all the same
C16_Witness ==
    /\ rendered.done > 0
    /\ rendered.fault.kind = "getter"
    /\ rendered.fault.prop = "category"
    /\ Faultless.properties["category"].k = "obj"
    /\ rendered.feature.properties["category"] = JsNull
    /\ rendered.feature.properties["organizer"].k = "obj"

\* C17: when serializing a whole Event record fails, the serializer still
\* emits one Feature for it, of shape {type: 'Feature', geometry,
\* properties}, whose properties hold the Event's id; the serializer
\* emits as many Features as it was given Events.
C17_RecordFailureContained ==
    /\ rendered.pc # "failed"
    /\ rendered.count = rendered.done
    /\ (rendered.done > 0 /\ rendered.fault.kind \in {"skip", "error"}) =>
          /\ rendered.feature.type = "Feature"
          /\ rendered.feature.geometry.k \in {"null", "point"}
          /\ "id" \in DOMAIN rendered.feature.properties
          /\ rendered.feature.properties["id"] = Js("int", LastRow.id)

\* the last of several Events failed as a whole, and again in the except
\* branch: its Feature has the id alone, and the count is still whole
C17_Witness ==
    /\ rendered.done = Len(rendered.rows)
    /\ rendered.done >= 2
    /\ rendered.count = rendered.done
    /\ rendered.fault.kind = "error"
    /\ ~rendered.fault.fallbackOk
    /\ DOMAIN rendered.feature.properties = {"id"}

\* whether the row has no category, no organizer and no country
NoRelations(obj) ==
    obj.row.category_id = 0 /\ obj.organizer_id = 0 /\ obj.country_id = 0

\* C19: an Event with no category, no organizer and no country serializes
\* to a full Feature: category, organizer and country are null or absent,
\* and the id, the geometry, title, when, tags and the tag list are
\* there with the values of the row.
C19_NullRelationsSerialize ==
    (/\ rendered.done > 0
     /\ rendered.fault = NoFault
     /\ NoRelations(Instance(LastRow)))
    => LET got == rendered.feature.properties
       IN  /\ rendered.pc = "rendering"
           /\ rendered.feature.type = "Feature"
           /\ rendered.feature.id = Js("int", LastRow.id)
           /\ rendered.feature.geometry = Js("point", LastRow.location)
           /\ \A p \in {"category", "organizer", "country"} :
                 p \notin DOMAIN got \/ got[p] = JsNull
           /\ {"title", "when", "tags", "tags_list"} \subseteq DOMAIN got
           /\ got["title"] = Js("str", LastRow.title)
           /\ got["when"] = Js("time", LastRow.when)
           /\ got["tags"] = Js("str", LastRow.tags)
           /\ got["tags_list"] = Js("list", TagList(LastRow.tags))

\* an Event without relations and with a tag, serialized without a fault
C19_Witness ==
    /\ rendered.done > 0
    /\ rendered.fault = NoFault
    /\ NoRelations(Instance(LastRow))
    /\ rendered.feature.properties["category"] = JsNull
    /\ rendered.feature.properties["tags_list"].v # << >>
    /\ rendered.feature.id.k = "int"

\* the squared distance of Feature i of the response from the point of
\* the request
FeatureDist2(i) ==
    Dist2(resp.features[i].geometry, <<req.GET.lng.v, req.GET.lat.v>>)

\* C21: ranked_by_distance with valid lat and lng and a limit that is a
\* whole number not below zero (or omitted: 50) returns the min(limit,
\* number of Events) Events nearest to the point, nearest first: each
\* Feature is a stored Event, none twice, no Event left out is strictly
\* nearer than a returned one, and each Feature is at least as near as
\* the one after it.
C21_RankedNearestFirst ==
    (/\ Responded("ranked_by_distance")
     /\ req.serOk
     /\ req.GET.lat.k = "num" /\ req.GET.lng.k = "num"
     /\ \/ req.GET.limit.k = "absent"
        \/ WholeNumber(req.GET.limit) /\ req.GET.limit.v >= 0)
    => LET limit == IF req.GET.limit.k = "absent" THEN 50
                    ELSE req.GET.limit.v \div 2
           n == Len(resp.features)
       IN  /\ resp.status = 200 /\ resp.fc
           /\ n = Min2(limit, Cardinality(events))
           /\ Cardinality(Ids(resp.features)) = n
           /\ \A i \in 1..n : \E e \in events :
                 /\ e.id = resp.features[i].id
                 /\ e.location = resp.features[i].geometry
           /\ \A i \in 1..n, j \in 1..n :
                 i < j => FeatureDist2(i) <= FeatureDist2(j)
           /\ \A e \in events :
                 e.id \notin Ids(resp.features) =>
                     \A i \in 1..n :
                         FeatureDist2(i)
                            <= Dist2(e.location,
                                     <<req.GET.lng.v, req.GET.lat.v>>)

\* a ranking cut by its limit between two Events equally far away
C21_Witness ==
    /\ Responded("ranked_by_distance")
    /\ resp.status = 200
    /\ Len(resp.features) = 2
    /\ Cardinality(events) = 4
    /\ FeatureDist2(1) < FeatureDist2(2)
    /\ \E e \in events :
          /\ e.id \notin Ids(resp.features)
          /\ Dist2(e.location, <<req.GET.lng.v, req.GET.lat.v>>)
                = FeatureDist2(2)

\* whether the tag list of an Event holds the tag as a whole element
HasTag(e, tag) ==
    \E i \in 1..Len(TagList(e.tags)) : TagList(e.tags)[i] = tag

\* the tags asked for: the parameter split on commas and trimmed
TagsAsked(r) == TagList(Strip(TextOf(r.GET.tags)))

\* whether the list request has no filter but tags, on one page
OnlyTags(r) ==
    /\ r.GET.tags.k = "str"
    /\ ~BboxOk(r.GET.bbox)
    /\ r.GET.category.k = "absent" /\ r.GET.status.k = "absent"
    /\ r.GET.q.k = "absent"
    /\ r.GET.upcoming = "" /\ r.GET.today = ""
    /\ r.GET.page.k = "absent" /\ r.GET.page_size.k = "absent"

\* C22 as stated: the tags filter of the events list is a membership
\* filter: the Events returned are those whose tag list holds every
\* requested tag as a whole element; an Event whose tags hold a requested
\* tag only inside a longer tag is not returned.
C22_AsStated ==
    (Responded("list") /\ resp.status = 200 /\ OnlyTags(req))
    => Ids(resp.features) =
          {e.id : e \in {f \in events :
              \A i \in 1..Len(TagsAsked(req)) : HasTag(f, TagsAsked(req)[i])}}

\* whether Event e satisfies every filter request r supplies, each filter
\* as it is documented: the bbox boundary-inclusive, a tag as a whole
\* element of the tag list
SatisfiesAll(e, r) ==
    /\ BboxOk(r.GET.bbox) => Covers(e.location, BboxEnvelope(r.GET.bbox))
    /\ WholeNumber(r.GET.category) => e.category_id = r.GET.category.v \div 2
    /\ \A i \in 1..Len(TagsAsked(r)) : HasTag(e, TagsAsked(r)[i])
    /\ Strip(TextOf(r.GET.status)) # << >>
          => e.status = Strip(TextOf(r.GET.status))
    /\ Strip(TextOf(r.GET.q)) # << >>
          => \/ IContains(e.title, Strip(TextOf(r.GET.q)))
             \/ IContains(e.description, Strip(TextOf(r.GET.q)))
    /\ r.GET.upcoming = "true" => e.when > r.now
    /\ r.GET.today = "true"
          => /\ e.when >= r.now - (r.now % 24)
             /\ e.when < r.now - (r.now % 24) + 24

\* C23 as stated: the events list applies all supplied valid filters as a
\* conjunction: the result is exactly the Events that satisfy every one
\* of bbox containment, category equality, each tag, status equality, q,
\* upcoming=true and today=true; a category that is no number is ignored
\* and removes no other filter.
C23_AsStated ==
    (/\ Responded("list") /\ resp.status = 200
     /\ req.GET.page.k = "absent" /\ req.GET.page_size.k = "absent")
    => Ids(resp.features) = {e.id : e \in {f \in events : SatisfiesAll(f, req)}}

\* C24 as stated: repeating an identical query against unchanged stored
\* rows returns the same set of identifiers every time, whatever was
\* queried and logged in between: the request in hand, run again with the
\* same parameters at the same time on the rows as they are now, with the
\* database free to put rows of equal sort key either way round, answers
\* with the same ids.
C24_AsStated ==
    (pc = "responded" /\ resp.status = 200) =>
        \A tieUp \in BOOLEAN :
            LET again == Handled([req EXCEPT !.tieUp = tieUp]).resp
            IN  /\ again.status = 200
                /\ Ids(again.features) = Ids(resp.features)

\* C25: the coordinates of the Feature of a Point Event are [longitude,
\* latitude] as stored, unswapped, on the normal path and on the fallback
\* path that keeps a geometry; and the lat and lng of a request become a
\* reference point with x = lng and y = lat.
C25_NoCoordinateSwap ==
    /\ rendered.done > 0 =>
          /\ rendered.feature.geometry.k = "point" =>
                rendered.feature.geometry.v
                   = <<LastRow.location[1], LastRow.location[2]>>
          /\ (\/ rendered.fault.kind \in {"none", "getter", "field"}
              \/ rendered.fault.kind = "skip" /\ rendered.fault.fallbackOk)
                => rendered.feature.geometry.k = "point"
    /\ (rendered.pc # "idle" /\ rendered.GET.lat.k = "num") =>
          /\ rendered.ref[1] = rendered.GET.lng.v
          /\ rendered.ref[2] = rendered.GET.lat.v

\* an Event whose longitude and latitude differ, serialized on the
\* fallback path, for a request whose lat and lng differ
C25_Witness ==
    /\ rendered.done > 0
    /\ rendered.fault.kind = "skip" /\ rendered.fault.fallbackOk
    /\ LastRow.location[1] # LastRow.location[2]
    /\ rendered.feature.geometry.k = "point"
    /\ rendered.GET.lat.k = "num"
    /\ rendered.GET.lat.v # rendered.GET.lng.v

\* the mean of the ratings rounded to 2 decimals, in millionths
RoundedMean(ratings) ==
    10000 * ((200 * SumSeq(ratings) + Len(ratings)) \div (2 * Len(ratings)))

\* C26 as stated: the average_rating of an Event Feature is the mean of
\* the ratings of the Event's reviews rounded to 2 decimal places, and
\* null when the Event has no reviews.
C26_AsStated ==
    (rendered.done > 0 /\ rendered.fault = NoFault) =>
        LET ratings == ReviewRatings[LastRow.id]
            got == rendered.feature.properties["average_rating"]
        IN  IF ratings = << >> THEN got = JsNull
            ELSE got.k = "float" /\ got.v = RoundedMean(ratings)

\* C27 as stated: in every Event Feature each of the nested lists media,
\* reviews and attendees holds at most 10 entries and holds the Event's
\* own items, the first 10 when there are more.
C27_AsStated ==
    (rendered.done > 0 /\ rendered.fault = NoFault) =>
        \A p \in {"media", "reviews", "attendees"} :
            LET stored == CASE p = "media" -> MediaRows[LastRow.id]
                            [] p = "reviews" -> Len(ReviewRatings[LastRow.id])
                            [] p = "attendees" -> AttendeeRows[LastRow.id]
                got == rendered.feature.properties[p].v
            IN  /\ Len(got) = Min2(stored, 10)
                /\ \A i \in 1..Len(got) :
                      got[i].event = LastRow.id /\ got[i].n = i

RECURSIVE SumCounts(_, _)
SumCounts(counts, codes) ==
    IF codes = {} THEN 0
    ELSE LET c == CHOOSE c \in codes : TRUE
         IN  counts[c] + SumCounts(counts, codes \ {c})

\* C29: in every stats response geocoded + missing_geometry =
\* total_events, upcoming + past <= total_events (an Event whose time is
\* now counts as neither), and the status_breakdown counts over the five
\* statuses sum to total_events.
C29_StatsAddUp ==
    Responded("stats") =>
        LET d == resp.data
        IN  /\ resp.status = 200
            /\ d.total_events = Cardinality(events)
            /\ d.geocoded + d.missing_geometry = d.total_events
            /\ d.upcoming + d.past <= d.total_events
            /\ d.upcoming + d.past
                  + Cardinality({e \in events : e.when = req.now})
                  = d.total_events
            /\ Cardinality(DOMAIN d.status_breakdown) = 5
            /\ SumCounts(d.status_breakdown, DOMAIN d.status_breakdown)
                  = d.total_events

\* a summary made while one Event takes place: upcoming and past fall
\* short of the total, and three statuses have Events
C29_Witness ==
    /\ Responded("stats")
    /\ resp.data.total_events = 4
    /\ resp.data.upcoming + resp.data.past = 3
    /\ Cardinality({c \in STATUS_CHOICES :
                       resp.data.status_breakdown[c] > 0}) = 3

FirstInRange(route) ==
    /\ Abs(route.path[1][1]) <= 180
    /\ Abs(route.path[1][2]) <= 90

\* C30 as stated: after one run of fix_route_coordinates every route it
\* changed has a first coordinate with |longitude| <= 180 and
\* |latitude| <= 90, and an immediate second run changes no route.
C30_AsStated ==
    /\ (fixer.pos = 0 /\ fixer.runs = 1) =>
           \A r \in fixer.fixed : FirstInRange(route_paths[r])
    /\ (fixer.pos = 0 /\ fixer.runs = 2) => fixer.fixed = {}

=============================================================================
